---------------------------- MODULE Spec2Model ----------------------------
(***************************************************************************)
(* Model of the caches, the event stream and the execution slots of the    *)
(* DemoSportsColombia backend.                                             *)
(*                                                                         *)
(*   AnalysisCacheService   src/app/services/cache_service.py              *)
(*   TTL caches             src/app/core/cache.py, core/simple_cache.py    *)
(*   StreamService          src/app/services/stream_service.py             *)
(*   executor_slots         src/app/backend_api7.py                        *)
(*                                                                         *)
(* Every subsystem has its own variables and its own specification; a      *)
(* specification leaves the variables of the other subsystems at their     *)
(* idle values.                                                            *)
(***************************************************************************)
EXTENDS Integers, Sequences, FiniteSets, TLC

VARIABLES
    \* ---- AnalysisCacheService
    max_size,     \* self.max_size
    cache,        \* self._cache: OrderedDict, a sequence of <<key, value>> in iteration order
    queue,        \* self._queue: list of keys
    ac_ret,       \* the last call on the cache: [op, key, val, present, ret]
    written,      \* history: the keys written so far, by time of their last write
    reads         \* history: the keys a get has found so far

ac_vars == <<max_size, cache, queue, ac_ret, written, reads>>

\* Python's None, for every optional value of the model.
None == "None"

(***************************************************************************)
(* Sequence helpers (Python list and OrderedDict operations).              *)
(***************************************************************************)
Range(s) == {s[i] : i \in DOMAIN s}

\* list.remove(x): drops the first occurrence of x
RECURSIVE ListRemove(_, _)
ListRemove(s, x) ==
    IF s = <<>> THEN <<>>
    ELSE IF Head(s) = x THEN Tail(s)
    ELSE <<Head(s)>> \o ListRemove(Tail(s), x)

\* the position of the first occurrence of x in s, 0 when absent
RECURSIVE IndexOf(_, _)
IndexOf(s, x) ==
    IF s = <<>> THEN 0
    ELSE IF Head(s) = x THEN 1
    ELSE IF IndexOf(Tail(s), x) = 0 THEN 0 ELSE 1 + IndexOf(Tail(s), x)

\* the last n elements of s (all of s when it is shorter)
LastN(s, n) ==
    IF Len(s) <= n THEN s ELSE SubSeq(s, Len(s) - n + 1, Len(s))

IsInjective(s) == \A i, j \in DOMAIN s : s[i] = s[j] => i = j

\* keys of an OrderedDict
DictKeys(d) == {d[i][1] : i \in DOMAIN d}

\* key in d
DictHas(d, k) == k \in DictKeys(d)

\* d.get(k): the value stored under k, None when absent
DictGet(d, k) ==
    IF DictHas(d, k) THEN (CHOOSE p \in Range(d) : p[1] = k)[2] ELSE None

\* d.pop(k, None) / d.pop(k): the dict without k
DictPop(d, k) == SelectSeq(d, LAMBDA p : p[1] # k)

\* d.move_to_end(k)
DictMoveToEnd(d, k) ==
    IF DictHas(d, k) THEN Append(DictPop(d, k), <<k, DictGet(d, k)>>) ELSE d

\* d[k] = v: replaces the value in place when k is present, appends otherwise
DictSetItem(d, k, v) ==
    IF DictHas(d, k)
    THEN [i \in DOMAIN d |-> IF d[i][1] = k THEN <<k, v>> ELSE d[i]]
    ELSE Append(d, <<k, v>>)

(***************************************************************************)
(* AnalysisCacheService                                                    *)
(***************************************************************************)
\* bounds of the cache model
MaxSize == 2

\* match times used as keys, analysis results used as values
Times == {"9:00", "9:30", "10:00"}
Results == {"r1", "r2"}

\* AnalysisCacheService.__init__: any max_size is accepted
ACInit(cap) ==
    /\ max_size = cap
    /\ cache = <<>>
    /\ queue = <<>>
    /\ ac_ret = [op |-> "init", key |-> None, val |-> None, present |-> FALSE, ret |-> None]
    /\ written = <<>>
    /\ reads = {}

\* set, line 68: the limit is reached
LimitNotReached(n, cap) == n > cap
LimitReached(n, cap) == n >= cap

\* set, line 69: queue.pop(0) takes the head of the queue, the oldest write
PopNewest(q) == [time |-> q[Len(q)], rest |-> SubSeq(q, 1, Len(q) - 1)]
PopOldest(q) == [time |-> Head(q), rest |-> Tail(q)]

\* set, lines 63-64: an updated key moves to the tail of the queue
QueueKept(q, k) == q
QueueAfterUpdate(q, k) == Append(ListRemove(q, k), k)

\* AnalysisCacheService.get(match_time)
ACGet(k) ==
    /\ ac_ret' = [op |-> "get", key |-> k, val |-> None, present |-> DictHas(cache, k),
                  ret |-> DictGet(cache, k)]
    /\ reads' = IF DictHas(cache, k) THEN reads \cup {k} ELSE reads
    /\ UNCHANGED <<max_size, cache, queue, written>>

\* AnalysisCacheService.set(match_time, result), the key is present
ACSetExisting(k, v) ==
    /\ DictHas(cache, k)
    /\ cache' = DictSetItem(DictMoveToEnd(cache, k), k, v)
    /\ queue' = QueueAfterUpdate(queue, k)
    /\ ac_ret' = [op |-> "set", key |-> k, val |-> v, present |-> TRUE, ret |-> None]

\* AnalysisCacheService.set(match_time, result), the key is new; queue.pop(0)
\* on an empty queue raises IndexError before anything is changed
ACSetNew(k, v) ==
    /\ ~DictHas(cache, k)
    /\ IF LimitReached(Len(cache), max_size)
       THEN IF queue = <<>>
            THEN /\ ac_ret' = [op |-> "set", key |-> k, val |-> v, present |-> FALSE,
                               ret |-> "IndexError"]
                 /\ UNCHANGED <<cache, queue>>
            ELSE /\ cache' = DictSetItem(DictPop(cache, PopOldest(queue).time), k, v)
                 /\ queue' = Append(PopOldest(queue).rest, k)
                 /\ ac_ret' = [op |-> "set", key |-> k, val |-> v, present |-> FALSE, ret |-> None]
       ELSE /\ cache' = DictSetItem(cache, k, v)
            /\ queue' = Append(queue, k)
            /\ ac_ret' = [op |-> "set", key |-> k, val |-> v, present |-> FALSE, ret |-> None]

\* AnalysisCacheService.set with the write history kept beside it
ACSet(k, v) ==
    /\ ACSetExisting(k, v) \/ ACSetNew(k, v)
    /\ written' = IF ac_ret'.ret = "IndexError" THEN written
                  ELSE Append(ListRemove(written, k), k)
    /\ UNCHANGED <<max_size, reads>>

\* AnalysisCacheService.remove(match_time)
ACRemove(k) ==
    /\ IF DictHas(cache, k)
       THEN /\ cache' = DictPop(cache, k)
            /\ queue' = ListRemove(queue, k)
            /\ ac_ret' = [op |-> "remove", key |-> k, val |-> None, present |-> TRUE, ret |-> "True"]
       ELSE /\ ac_ret' = [op |-> "remove", key |-> k, val |-> None, present |-> FALSE, ret |-> "False"]
            /\ UNCHANGED <<cache, queue>>
    /\ written' = ListRemove(written, k)
    /\ UNCHANGED <<max_size, reads>>

\* AnalysisCacheService.clear()
ACClear ==
    /\ cache' = <<>>
    /\ queue' = <<>>
    /\ ac_ret' = [op |-> "clear", key |-> None, val |-> None, present |-> FALSE, ret |-> None]
    /\ written' = <<>>
    /\ reads' = {}
    /\ UNCHANGED max_size

\* AnalysisCacheService.exists(match_time)
ACExists(k) == DictHas(cache, k)

\* AnalysisCacheService.get_stats()
ACGetStats ==
    [size |-> Len(cache),
     max_size |-> max_size,
     times_cached |-> queue,
     oldest_time |-> IF queue # <<>> THEN queue[1] ELSE None,
     newest_time |-> IF queue # <<>> THEN queue[Len(queue)] ELSE None]

(***************************************************************************)
(* Properties of AnalysisCacheService                                      *)
(***************************************************************************)
\* C1: on a cache constructed with max_size >= 1 the number of stored
\* entries never exceeds max_size, whatever set, get, remove and clear calls
\* were made.
C1_SizeWithinMaxSize ==
    max_size >= 1 =>
        /\ ACGetStats.size <= max_size
        /\ Cardinality(DictKeys(cache)) <= max_size

\* a full cache took one more key: a set that evicted
C1_Witness ==
    /\ max_size >= 1
    /\ ac_ret.op = "set" /\ ~ac_ret.present
    /\ Len(written) > max_size
    /\ ACGetStats.size = max_size

\* C2: under set and get calls alone the keys present are exactly the
\* max_size most recently written ones (all written keys while there are
\* fewer), in the order of their last write: a get never changes which key is
\* evicted next.
C2_SurvivorsAreLastWritten ==
    /\ DictKeys(cache) = Range(LastN(written, max_size))
    /\ queue = LastN(written, max_size)

\* capacity 2, 9:00 was read while present, then 9:30 and 10:00 pushed it out
C2_Witness ==
    /\ max_size = 2
    /\ written = <<"9:00", "9:30", "10:00">>
    /\ "9:00" \in reads
    /\ ~ACExists("9:00") /\ ACExists("9:30") /\ ACExists("10:00")
    /\ ac_ret.op = "get" /\ ac_ret.key = "9:00" /\ ac_ret.ret = None

\* C3: a set on a key that is present replaces its value, makes the key the
\* newest of the write order (newest_time of get_stats, the tail of the
\* queue), keeps the size, keeps every other key with its value, and keeps the
\* order of the other keys.
C3_SetExistingRefreshes ==
    [][(ac_ret'.op = "set" /\ ac_ret'.present /\ ac_ret'.key \in DictKeys(cache)) =>
          LET k == ac_ret'.key
          IN /\ DictGet(cache', k) = ac_ret'.val
             /\ ACGetStats'.newest_time = k
             /\ IndexOf(queue', k) = Len(queue')
             /\ ACGetStats'.size = ACGetStats.size
             /\ DictKeys(cache') = DictKeys(cache)
             /\ \A o \in DictKeys(cache) \ {k} : DictGet(cache', o) = DictGet(cache, o)
             /\ ListRemove(queue', k) = ListRemove(queue, k)]_ac_vars

\* a key that was not the newest was set again and is the newest now
C3_Witness ==
    /\ ac_ret.op = "set" /\ ac_ret.present
    /\ Len(queue) = 2
    /\ Len(written) > 2
    /\ ACGetStats.newest_time = ac_ret.key
    /\ DictGet(cache, ac_ret.key) = ac_ret.val

\* C22: a constructed cache has a valid capacity (construction with a
\* negative or zero max_size fails), and no call on a constructed cache
\* raises.
C22_Original ==
    /\ max_size >= 1
    /\ ac_ret.ret # "IndexError"

\* list(self._cache): the keys of the map in iteration order
DictKeyList(d) == [i \in DOMAIN d |-> d[i][1]]

\* C29: after any sequence of set, remove and clear calls the queue and the
\* map hold the same keys, the queue holds no key twice, the queue order is
\* the iteration order of the map, and remove(k) returned True exactly when
\* k was present before the call (and k is absent after it).
C29_QueueMirrorsMap ==
    /\ Range(queue) = DictKeys(cache)
    /\ IsInjective(queue)
    /\ queue = DictKeyList(cache)
    /\ ac_ret.op = "remove" =>
          /\ (ac_ret.ret = "True") <=> ac_ret.present
          /\ ~DictHas(cache, ac_ret.key)

\* two keys were stored and the older one was removed: True was returned,
\* the other key is what the queue and the map hold
C29_Witness ==
    /\ ac_ret.op = "remove" /\ ac_ret.present /\ ac_ret.ret = "True"
    /\ Len(queue) = 1
    /\ queue = DictKeyList(cache)
    /\ written = queue
    /\ max_size = 2


(***************************************************************************)
(* TTL caches: CacheManager, the two TTLCache classes of core/cache.py and *)
(* SimpleCache.  One clock (time.time()) serves them all.                  *)
(***************************************************************************)
VARIABLES
    now,          \* time.time(), in seconds
    inst,         \* the cache instance the client drives
    ttl,          \* self.ttl of the TTLCache / SimpleCache instance
    store,        \* TTLCache.store (second definition): key -> [ts, value]
    simple_store, \* SimpleCache.store
    cm_cache,     \* CacheManager._cache: key -> [data, timestamp]
    api_store,    \* cache_api.store (TTLCache, first definition)
    ttl_ret,      \* the last call: [op, key, ttl, at, ret]
    last_set      \* history: key -> [ts, value, lapsed] of the last set not deleted
                  \* since; lapsed: a get has found the TTL of its call exceeded

ttl_vars == <<now, inst, ttl, store, simple_store, cm_cache, api_store, ttl_ret, last_set>>

\* bounds of the TTL model
MaxTime == 12
MaxTTL == 2

\* the TTL hard-coded in the first TTLCache.get
ApiTTL == 10

TKeys == {"k1", "k2"}
TValues == {"v1", "v2"}

\* an empty dict
EmptyDict == [k \in {} |-> None]

\* del d[k]
DictDel(d, k) == [x \in DOMAIN d \ {k} |-> d[x]]

\* d[k] = e on a plain dict
DictPut(d, k, e) == [x \in DOMAIN d \cup {k} |-> IF x = k THEN e ELSE d[x]]

\* the expiry test of every get: time.time() - timestamp > ttl
ExpiredAtOrAfter(ts, t) == now - ts >= t
Expired(ts, t) == now - ts > t

\* the entry a set stores: (time.time(), value)
Entry(v) == [ts |-> now, value |-> v]

\* TTLCache.get / SimpleCache.get: does the call return the stored value
TTLHit(st, k, t) == k \in DOMAIN st /\ ~Expired(st[k].ts, t)

\* TTLCache.get / SimpleCache.get: the store after the call (lazy expiry)
TTLAfterGet(st, k, t) ==
    IF k \in DOMAIN st /\ Expired(st[k].ts, t) THEN DictDel(st, k) ELSE st

\* TTLCache.__init__(ttl_seconds) / SimpleCache.__init__(ttl_seconds) /
\* CacheManager.__init__ / the first TTLCache.__init__
TTLInit(i, t) ==
    /\ now = 0
    /\ inst = i
    /\ ttl = t
    /\ store = EmptyDict
    /\ simple_store = EmptyDict
    /\ cm_cache = EmptyDict
    /\ api_store = EmptyDict
    /\ ttl_ret = [op |-> "init", key |-> None, ttl |-> 0, at |-> 0, ret |-> None]
    /\ last_set = EmptyDict

\* history: a get of k with TTL t finds the last set of k older than t
NoteGet(k, t) ==
    IF k \in DOMAIN last_set /\ now - last_set[k].ts > t
    THEN [last_set EXCEPT ![k].lapsed = TRUE]
    ELSE last_set

\* no TTL cache is driven
TTLIdle == TTLInit(None, 0)

\* the clock advances
Tick ==
    /\ now < MaxTime
    /\ now' = now + 1
    /\ UNCHANGED <<inst, ttl, store, simple_store, cm_cache, api_store, ttl_ret, last_set>>

\* TTLCache.get(key), second definition (events_cache is such an instance)
TTLCacheGet(k) ==
    /\ inst = "TTLCache"
    /\ store' = TTLAfterGet(store, k, ttl)
    /\ ttl_ret' = [op |-> "get", key |-> k, ttl |-> ttl, at |-> now,
                  ret |-> IF TTLHit(store, k, ttl) THEN store[k].value ELSE None]
    /\ last_set' = NoteGet(k, ttl)
    /\ UNCHANGED <<now, inst, ttl, simple_store, cm_cache, api_store>>

\* TTLCache.set(key, value)
TTLCacheSet(k, v) ==
    /\ inst = "TTLCache"
    /\ store' = DictPut(store, k, Entry(v))
    /\ ttl_ret' = [op |-> "set", key |-> k, ttl |-> ttl, at |-> now, ret |-> None]
    /\ last_set' = DictPut(last_set, k, [ts |-> now, value |-> v, lapsed |-> FALSE])
    /\ UNCHANGED <<now, inst, ttl, simple_store, cm_cache, api_store>>

\* TTLCache.delete(key)
TTLCacheDelete(k) ==
    /\ inst = "TTLCache"
    /\ store' = IF k \in DOMAIN store THEN DictDel(store, k) ELSE store
    /\ ttl_ret' = [op |-> "delete", key |-> k, ttl |-> ttl, at |-> now, ret |-> None]
    /\ last_set' = DictDel(last_set, k)
    /\ UNCHANGED <<now, inst, ttl, simple_store, cm_cache, api_store>>

\* TTLCache.clear()
TTLCacheClear ==
    /\ inst = "TTLCache"
    /\ store' = EmptyDict
    /\ ttl_ret' = [op |-> "clear", key |-> None, ttl |-> ttl, at |-> now, ret |-> None]
    /\ last_set' = EmptyDict
    /\ UNCHANGED <<now, inst, ttl, simple_store, cm_cache, api_store>>

\* SimpleCache.get(key)
SimpleGet(k) ==
    /\ inst = "SimpleCache"
    /\ simple_store' = TTLAfterGet(simple_store, k, ttl)
    /\ ttl_ret' = [op |-> "get", key |-> k, ttl |-> ttl, at |-> now,
                  ret |-> IF TTLHit(simple_store, k, ttl) THEN simple_store[k].value
                          ELSE None]
    /\ last_set' = NoteGet(k, ttl)
    /\ UNCHANGED <<now, inst, ttl, store, cm_cache, api_store>>

\* SimpleCache.set(key, value)
SimpleSet(k, v) ==
    /\ inst = "SimpleCache"
    /\ simple_store' = DictPut(simple_store, k, Entry(v))
    /\ ttl_ret' = [op |-> "set", key |-> k, ttl |-> ttl, at |-> now, ret |-> None]
    /\ last_set' = DictPut(last_set, k, [ts |-> now, value |-> v, lapsed |-> FALSE])
    /\ UNCHANGED <<now, inst, ttl, store, cm_cache, api_store>>

\* SimpleCache.clear()
SimpleClear ==
    /\ inst = "SimpleCache"
    /\ simple_store' = EmptyDict
    /\ ttl_ret' = [op |-> "clear", key |-> None, ttl |-> ttl, at |-> now, ret |-> None]
    /\ last_set' = EmptyDict
    /\ UNCHANGED <<now, inst, ttl, store, cm_cache, api_store>>

\* CacheManager.get(key, ttl): the TTL is an argument of the call
CacheManagerGet(k, t) ==
    /\ inst = "CacheManager"
    /\ IF k \notin DOMAIN cm_cache
       THEN /\ ttl_ret' = [op |-> "get", key |-> k, ttl |-> t, at |-> now, ret |-> None]
            /\ UNCHANGED cm_cache
       ELSE IF Expired(cm_cache[k].timestamp, t)
            THEN /\ cm_cache' = DictDel(cm_cache, k)
                 /\ ttl_ret' = [op |-> "get", key |-> k, ttl |-> t, at |-> now, ret |-> None]
            ELSE /\ ttl_ret' = [op |-> "get", key |-> k, ttl |-> t, at |-> now,
                                ret |-> cm_cache[k].data]
                 /\ UNCHANGED cm_cache
    /\ last_set' = NoteGet(k, t)
    /\ UNCHANGED <<now, inst, ttl, store, simple_store, api_store>>

\* CacheManager.set(key, value)
CacheManagerSet(k, v) ==
    /\ inst = "CacheManager"
    /\ cm_cache' = DictPut(cm_cache, k, [data |-> v, timestamp |-> now])
    /\ ttl_ret' = [op |-> "set", key |-> k, ttl |-> 0, at |-> now, ret |-> None]
    /\ last_set' = DictPut(last_set, k, [ts |-> now, value |-> v, lapsed |-> FALSE])
    /\ UNCHANGED <<now, inst, ttl, store, simple_store, api_store>>

\* CacheManager.clear()
CacheManagerClear ==
    /\ inst = "CacheManager"
    /\ cm_cache' = EmptyDict
    /\ ttl_ret' = [op |-> "clear", key |-> None, ttl |-> 0, at |-> now, ret |-> None]
    /\ last_set' = EmptyDict
    /\ UNCHANGED <<now, inst, ttl, store, simple_store, api_store>>

\* TTLCache.get(key), first definition (cache_api): an expired entry is
\* answered with None and left in the store
ApiGet(k) ==
    /\ inst = "cache_api"
    /\ IF k \notin DOMAIN api_store
       THEN ttl_ret' = [op |-> "get", key |-> k, ttl |-> ApiTTL, at |-> now, ret |-> None]
       ELSE IF Expired(api_store[k].ts, ApiTTL)
            THEN ttl_ret' = [op |-> "get", key |-> k, ttl |-> ApiTTL, at |-> now, ret |-> None]
            ELSE ttl_ret' = [op |-> "get", key |-> k, ttl |-> ApiTTL, at |-> now,
                             ret |-> api_store[k].value]
    /\ last_set' = NoteGet(k, ApiTTL)
    /\ UNCHANGED <<now, inst, ttl, store, simple_store, cm_cache, api_store>>

\* TTLCache.set(key, value), first definition (cache_api)
ApiSet(k, v) ==
    /\ inst = "cache_api"
    /\ api_store' = DictPut(api_store, k, Entry(v))
    /\ ttl_ret' = [op |-> "set", key |-> k, ttl |-> ApiTTL, at |-> now, ret |-> None]
    /\ last_set' = DictPut(last_set, k, [ts |-> now, value |-> v, lapsed |-> FALSE])
    /\ UNCHANGED <<now, inst, ttl, store, simple_store, cm_cache>>

\* the store of the instance under test
StoreOf(i) ==
    CASE i = "TTLCache" -> store
      [] i = "SimpleCache" -> simple_store
      [] i = "CacheManager" -> cm_cache
      [] i = "cache_api" -> api_store
      [] OTHER -> EmptyDict

(***************************************************************************)
(* Properties of the TTL caches                                            *)
(***************************************************************************)
\* the last call was a get of one of the caches C4 names
GetOfNamedCache ==
    ttl_ret.op = "get" /\ inst \in {"TTLCache", "SimpleCache", "CacheManager"}

\* the age, at the last call, of the last set of the key of that call
AgeAtGet == ttl_ret.at - last_set[ttl_ret.key].ts

\* C4 as stated: a get never returns a value older than the TTL that applies
\* to it, and returns the last value set for the key whenever that value is
\* no older than the TTL.
C4_Original ==
    GetOfNamedCache =>
        /\ ttl_ret.ret # None =>
              /\ ttl_ret.key \in DOMAIN last_set
              /\ ttl_ret.ret = last_set[ttl_ret.key].value
              /\ AgeAtGet <= ttl_ret.ttl
        /\ (ttl_ret.key \in DOMAIN last_set /\ AgeAtGet <= ttl_ret.ttl) =>
              ttl_ret.ret = last_set[ttl_ret.key].value

\* C4, amended: a get never returns a value older than the TTL that applies
\* to it; it returns the last value set for the key when that value is no
\* older than the TTL and no get since that set found it older than the TTL
\* of its own call (such a get has deleted the entry).
C4_FreshOrAbsent ==
    GetOfNamedCache =>
        /\ ttl_ret.ret # None =>
              /\ ttl_ret.key \in DOMAIN last_set
              /\ ttl_ret.ret = last_set[ttl_ret.key].value
              /\ AgeAtGet <= ttl_ret.ttl
        /\ (/\ ttl_ret.key \in DOMAIN last_set
            /\ AgeAtGet <= ttl_ret.ttl
            /\ ~last_set[ttl_ret.key].lapsed) =>
              ttl_ret.ret = last_set[ttl_ret.key].value

\* a get at the very age of the TTL, which is above 0, returned the value
C4_Witness ==
    /\ GetOfNamedCache
    /\ ttl_ret.key \in DOMAIN last_set
    /\ ttl_ret.ttl > 0
    /\ AgeAtGet = ttl_ret.ttl
    /\ ttl_ret.ret = last_set[ttl_ret.key].value

\* C5: in every TTL cache, cache_api included, a get of a key whose TTL has
\* elapsed returns absent and removes the entry from the store.
C5_ExpiredGetRemoves ==
    (/\ ttl_ret.op = "get"
     /\ ttl_ret.key \in DOMAIN last_set
     /\ AgeAtGet > ttl_ret.ttl) =>
        /\ ttl_ret.ret = None
        /\ ttl_ret.key \notin DOMAIN StoreOf(inst)

\* the same for the caches other than cache_api: there it holds
C5_ExpiredGetRemovesElsewhere ==
    inst # "cache_api" => C5_ExpiredGetRemoves

(***************************************************************************)
(* StreamService.stream_match_events: one generator per subscription of    *)
(* one fixture, over events_history (EventsCache) and events_cache (the    *)
(* TTLCache instance with ttl 10, variable store).                         *)
(***************************************************************************)
VARIABLES
    pc,            \* where each subscription's generator stands
    baseline,      \* the local variable baseline of each generator
    pending,       \* locals of a generator suspended at the yield of line 80
    last_events,   \* events_history.last_events[fixture_id]
    last_status,   \* StreamService._last_status_cache[fixture_id]
    out,           \* history: the kinds of the messages each subscription received
    tick,          \* history: what the last poll tick of each subscription did
    fetch_times    \* history: when the last two upstream events fetches were made

stream_vars == <<pc, baseline, pending, last_events, last_status, out, tick, fetch_times>>

\* bounds of the stream model
MaxEvents == 3
MaxOut == 3
MaxClock == 21

\* events_cache = TTLCache(ttl_seconds=10); poll_sec is fixed at 10.0
EventsTTL == 10
PollInterval == 10

Subs == {"s1"}
EventsKey == "events:1"

\* normalized events: the minute and what else tells two events apart
EvA == [minuto |-> 1, id |-> "A"]
EvB == [minuto |-> 2, id |-> "B"]
EvC == [minuto |-> 2, id |-> "C"]
Events == {EvA, EvB, EvC}

\* what get_fixture_events can answer: any list of distinct events
RawEvents ==
    {q \in UNION {[1..n -> Events] : n \in 0..MaxEvents} : IsInjective(q)}

\* an upstream call raises
Raise == "raise"

\* the outcomes of get_fixture_events: a list, or an exception
EventsAnswers ==
    {[raised |-> FALSE, events |-> q] : q \in RawEvents}
        \cup {[raised |-> TRUE, events |-> <<>>]}

\* what get_fixture_by_id can answer: no result, or a match in some state
Estados == {"First Half", "Halftime"}
FixtureAnswers == Estados \cup {"no results"}

\* list.sort(key=minuto): a stable insertion sort
RECURSIVE InsertByMinuto(_, _)
InsertByMinuto(sorted, e) ==
    IF sorted = <<>> THEN <<e>>
    ELSE IF sorted[Len(sorted)].minuto <= e.minuto THEN Append(sorted, e)
    ELSE Append(InsertByMinuto(SubSeq(sorted, 1, Len(sorted) - 1), e),
                sorted[Len(sorted)])

RECURSIVE SortByMinuto(_)
SortByMinuto(q) ==
    IF q = <<>> THEN <<>>
    ELSE InsertByMinuto(SortByMinuto(SubSeq(q, 1, Len(q) - 1)), q[Len(q)])

\* StreamService._get_new_events(baseline, current)
AllCurrent(base, current) == current
GetNewEvents(base, current) ==
    SelectSeq(current, LAMBDA e : e \notin Range(base))

\* EventsCache.get_new_events(fixture_id, current_events)
HistoryNewEvents(current) == GetNewEvents(last_events, current)

\* StreamService._get_match_status: the estado of the answer; a raising
\* upstream is answered with estado "Error", never raised further
StatusUncaught(answer) ==
    IF answer = "no results" THEN "Unknown" ELSE answer
GetMatchStatus(answer) ==
    IF answer = Raise THEN "Error"
    ELSE IF answer = "no results" THEN "Unknown"
    ELSE answer

\* StreamService._has_status_changed
HasStatusChangedAlways(current_status) == TRUE
HasStatusChanged(current_status) ==
    IF last_status = None THEN TRUE ELSE last_status # current_status

\* lines 73-78: the kind of the message of a tick
EventType(new_events, status_changed) ==
    IF new_events # <<>> THEN "events" ELSE "status"

NoPending == [events |-> <<>>, new |-> <<>>, changed |-> FALSE, status |-> None]
NoTick == [kind |-> "none", status_raised |-> FALSE, events_raised |-> FALSE, fetched |-> FALSE,
           last |-> None, status |-> None, base |-> <<>>, fresh |-> <<>>, msgs |-> <<>>]

\* history: get_fixture_events is called now
NoteFetch(called) ==
    IF called THEN LastN(Append(fetch_times, now), 2) ELSE fetch_times

StreamIdle ==
    /\ pc = [s \in Subs |-> "idle"]
    /\ baseline = [s \in Subs |-> <<>>]
    /\ pending = [s \in Subs |-> NoPending]
    /\ last_events = <<>>
    /\ last_status = None
    /\ out = [s \in Subs |-> <<>>]
    /\ tick = [s \in Subs |-> NoTick]
    /\ fetch_times = <<>>

\* StreamService._initialize_baseline: the history after the call
InitializeBaseline(answer) ==
    IF last_events # <<>> THEN last_events
    ELSE IF answer.raised THEN <<>>
    ELSE SortByMinuto(answer.events)

\* stream_match_events, lines 34-50: up to the yield of the ready message
\* (an exception that left _get_match_status would end the generator there)
StreamStart(s, events_answer, fixture_answer) ==
    /\ pc[s] = "idle"
    /\ last_events' = InitializeBaseline(events_answer)
    /\ baseline' = [baseline EXCEPT ![s] = last_events']
    /\ IF GetMatchStatus(fixture_answer) = Raise
       THEN /\ pc' = [pc EXCEPT ![s] = "failed"]
            /\ UNCHANGED <<last_status, out>>
       ELSE /\ last_status' = GetMatchStatus(fixture_answer)
            /\ out' = [out EXCEPT ![s] = Append(@, "ready")]
            /\ pc' = [pc EXCEPT ![s] = "ready_yield"]
    /\ tick' = [tick EXCEPT ![s] =
                  [NoTick EXCEPT !.kind = "start",
                                 !.status_raised = (fixture_answer = Raise),
                                 !.events_raised = (last_events = <<>> /\ events_answer.raised),
                                 !.msgs = out'[s]]]
    /\ fetch_times' = NoteFetch(last_events = <<>>)
    /\ UNCHANGED <<pending, store, now>>

\* the baseline a tick leaves behind, lines 90-92: replaced by the snapshot
\* only when the tick found new events
BaselineReplaced(base, new_events, current) == current
BaselineAfterTick(base, new_events, current) ==
    IF new_events # <<>> THEN current ELSE base

\* the subscriber asks for the next message: the generator resumes after its
\* yield (lines 89-95 after the yield of line 80) and runs up to its sleep
StreamResume(s) ==
    /\ pc[s] \in {"ready_yield", "msg_yield", "err_yield"}
    /\ IF pc[s] = "msg_yield"
       THEN /\ baseline' = [baseline EXCEPT ![s] =
                     BaselineAfterTick(@, pending[s].new, pending[s].events)]
            /\ last_events' = IF pending[s].new # <<>> THEN baseline'[s] ELSE last_events
            /\ last_status' = IF pending[s].changed THEN pending[s].status ELSE last_status
       ELSE UNCHANGED <<baseline, last_events, last_status>>
    /\ pending' = [pending EXCEPT ![s] = NoPending]
    /\ pc' = [pc EXCEPT ![s] = IF pc[s] = "ready_yield" THEN "poll" ELSE "sleep"]
    /\ UNCHANGED <<out, tick, fetch_times, store, now>>

\* asyncio.sleep(poll_interval) returns: at least poll_interval later
StreamWake(s, d) ==
    /\ pc[s] = "sleep"
    /\ now + d <= MaxClock
    /\ now' = now + d
    /\ pc' = [pc EXCEPT ![s] = "poll"]
    /\ UNCHANGED <<baseline, pending, last_events, last_status, out, tick, fetch_times, store>>

\* StreamService._get_current_events: the cached list, or the fetched one
CurrentEvents(events_answer) ==
    IF TTLHit(store, EventsKey, EventsTTL) THEN store[EventsKey].value
    ELSE SortByMinuto(events_answer.events)

\* the loop body runs only in the generator the subscriber iterates: a closed
\* generator is never resumed
CanPollOrClosed(p) == p \in {"poll", "closed"}
CanPoll(p) == p = "poll"

\* one pass of the loop body, lines 54-104, up to its yield or to the sleep
StreamPoll(s, fixture_answer, events_answer) ==
    /\ CanPoll(pc[s])
    /\ Len(out[s]) < MaxOut
    /\ LET current_status == GetMatchStatus(fixture_answer)
           hit == TTLHit(store, EventsKey, EventsTTL)
           raised == current_status = Raise \/ (~hit /\ events_answer.raised)
       IN IF raised
          THEN /\ store' = IF current_status = Raise THEN store
                              ELSE TTLAfterGet(store, EventsKey, EventsTTL)
               /\ out' = [out EXCEPT ![s] = Append(@, "error")]
               /\ pc' = [pc EXCEPT ![s] = "err_yield"]
               /\ tick' = [tick EXCEPT ![s] =
                             [kind |-> "poll",
                              status_raised |-> (fixture_answer = Raise),
                              events_raised |-> (~hit /\ events_answer.raised),
                              fetched |-> FALSE,
                              last |-> last_status, status |-> current_status,
                              base |-> baseline[s], fresh |-> <<>>,
                              msgs |-> <<"error">>]]
               /\ UNCHANGED pending
          ELSE LET current_events == CurrentEvents(events_answer)
                   new_events == GetNewEvents(baseline[s], current_events)
                   status_changed == HasStatusChanged(current_status)
                   emits == new_events # <<>> \/ status_changed
               IN /\ store' = IF hit THEN store
                              ELSE DictPut(TTLAfterGet(store, EventsKey, EventsTTL),
                                           EventsKey, Entry(current_events))
                  /\ IF emits
                     THEN /\ out' = [out EXCEPT ![s] =
                                       Append(@, EventType(new_events, status_changed))]
                          /\ pending' = [pending EXCEPT ![s] =
                                           [events |-> current_events, new |-> new_events,
                                            changed |-> status_changed,
                                            status |-> current_status]]
                          /\ pc' = [pc EXCEPT ![s] = "msg_yield"]
                     ELSE /\ pc' = [pc EXCEPT ![s] = "sleep"]
                          /\ UNCHANGED <<out, pending>>
                  /\ tick' = [tick EXCEPT ![s] =
                                [kind |-> "poll",
                                 status_raised |-> (fixture_answer = Raise),
                                 events_raised |-> FALSE, fetched |-> TRUE,
                                 last |-> last_status, status |-> current_status,
                                 base |-> baseline[s], fresh |-> current_events,
                                 msgs |-> IF emits
                                          THEN <<EventType(new_events, status_changed)>>
                                          ELSE <<>>]]
    /\ fetch_times' = NoteFetch(GetMatchStatus(fixture_answer) # Raise
                                /\ ~TTLHit(store, EventsKey, EventsTTL))
    /\ UNCHANGED <<baseline, last_events, last_status, now>>

\* the subscriber disconnects: the generator is closed where it is suspended
StreamClose(s) ==
    /\ pc[s] \in {"ready_yield", "msg_yield", "err_yield", "sleep"}
    /\ pc' = [pc EXCEPT ![s] = "closed"]
    /\ pending' = [pending EXCEPT ![s] = NoPending]
    /\ UNCHANGED <<baseline, last_events, last_status, out, tick, fetch_times, store, now>>

\* a new subscription of the same fixture: a new generator
StreamReconnect(s) ==
    /\ pc[s] = "closed"
    /\ pc' = [pc EXCEPT ![s] = "idle"]
    /\ baseline' = [baseline EXCEPT ![s] = <<>>]
    /\ out' = [out EXCEPT ![s] = <<>>]
    /\ tick' = [tick EXCEPT ![s] = NoTick]
    /\ UNCHANGED <<pending, last_events, last_status, fetch_times, store, now>>

\* GET /match-events/{fixture_id} (get_match_events): the cached events or the
\* fetched ones; a raising fetch answers 500 and an empty answer 404, both
\* before anything is written; otherwise the history is overwritten
GetMatchEvents(events_answer) ==
    LET hit == TTLHit(store, EventsKey, EventsTTL)
        cached_events == IF hit THEN store[EventsKey].value
                         ELSE SortByMinuto(events_answer.events)
        answered == hit \/ (~events_answer.raised /\ events_answer.events # <<>>)
    IN /\ store' = IF hit THEN store
                   ELSE IF answered
                        THEN DictPut(TTLAfterGet(store, EventsKey, EventsTTL),
                                     EventsKey, Entry(cached_events))
                        ELSE TTLAfterGet(store, EventsKey, EventsTTL)
       /\ last_events' = IF answered THEN cached_events ELSE last_events
       /\ fetch_times' = NoteFetch(~hit)
       /\ UNCHANGED <<pc, baseline, pending, last_status, out, tick, now>>

(***************************************************************************)
(* Properties of the event stream                                          *)
(***************************************************************************)
\* d is fresh without the members of base, in the order of fresh
IsDelta(d, base, fresh) ==
    LET idx == {i \in DOMAIN fresh : fresh[i] \notin Range(base)}
        nth(j) == CHOOSE i \in idx : Cardinality({x \in idx : x <= i}) = j
    IN /\ Len(d) = Cardinality(idx)
       /\ \A j \in DOMAIN d : d[j] = fresh[nth(j)]

\* the tick of s has fetched a snapshot and the generator is past its yield
PollDone(s) ==
    pc[s] \in {"sleep", "poll"} /\ tick[s].kind = "poll" /\ tick[s].fetched

\* C6: the delta of a tick is exactly the records of the fresh snapshot that
\* are not members of the baseline, in the order of the snapshot; a tick with
\* a non-empty delta (baseline [A,B], fresh [A,B,C], delta [C]) leaves the
\* fresh snapshot as the stored baseline.
C6_DeltaIsFreshMinusBaseline ==
    \A s \in Subs :
        /\ pc[s] = "msg_yield" =>
              /\ tick[s].base = baseline[s]
              /\ tick[s].fresh = pending[s].events
              /\ IsDelta(pending[s].new, baseline[s], pending[s].events)
              /\ out[s][Len(out[s])] = "events" <=> pending[s].new # <<>>
        /\ (tick[s].kind = "poll" /\ tick[s].fetched /\ tick[s].msgs # <<"events">>) =>
              IsDelta(<<>>, tick[s].base, tick[s].fresh)
        /\ (PollDone(s) /\ ~IsDelta(<<>>, tick[s].base, tick[s].fresh)) =>
              /\ baseline[s] = tick[s].fresh
              /\ last_events = tick[s].fresh

\* baseline [A,B], fresh [A,B,C]: an events message, and [A,B,C] is stored
C6_Witness ==
    \E s \in Subs :
        /\ PollDone(s)
        /\ tick[s].base = <<EvA, EvB>>
        /\ tick[s].fresh = <<EvA, EvB, EvC>>
        /\ tick[s].msgs = <<"events">>
        /\ baseline[s] = <<EvA, EvB, EvC>>
        /\ last_events = <<EvA, EvB, EvC>>

\* C7: after every successful poll the stored baseline is the whole fresh
\* snapshot, also when the delta is empty (baseline [A,B], fresh [B]: delta
\* [], new baseline [B]).
C7_BaselineAlwaysReplaced ==
    \A s \in Subs :
        PollDone(s) => /\ baseline[s] = tick[s].fresh
                       /\ last_events = tick[s].fresh

\* C8: a subscription receives exactly one ready message, and before any
\* other message, whatever the upstream answers or raises while the baseline
\* is bootstrapped and the initial status is fetched.
C8_ReadyOnceAndFirst ==
    \A s \in Subs :
        /\ pc[s] # "failed"
        /\ pc[s] = "idle" => out[s] = <<>>
        /\ pc[s] # "idle" =>
              /\ out[s] # <<>>
              /\ out[s][1] = "ready"
              /\ \A i \in 2..Len(out[s]) : out[s][i] # "ready"

\* both upstream calls of the start raised, and the ready message was sent
C8_Witness ==
    \E s \in Subs :
        /\ pc[s] = "ready_yield"
        /\ tick[s].kind = "start"
        /\ tick[s].status_raised /\ tick[s].events_raised
        /\ out[s] = <<"ready">>

Running == {"ready_yield", "poll", "sleep", "msg_yield", "err_yield"}

\* C14 as stated: while a stream of the fixture runs, the stored baseline
\* (events_history) changes only in the diff step of that stream, which
\* stores the stream's new baseline.
C14_Original ==
    [][((\E s \in Subs : pc[s] \in Running) /\ last_events' # last_events) =>
          \E s \in Subs : /\ pc[s] = "msg_yield" /\ pc'[s] = "sleep"
                          /\ last_events' = baseline'[s]]_stream_vars

C20_Original ==
    Len(fetch_times) = 2 => fetch_times[2] - fetch_times[1] >= EventsTTL

(***************************************************************************)
(* /analyze of backend_api7.py: request_semaphore, executor_slots and the  *)
(* ThreadPoolExecutor.                                                     *)
(***************************************************************************)
VARIABLES
    max_workers,   \* MAX_WORKERS
    req_sem,       \* request_semaphore: free entries
    slots,         \* executor_slots: free slots
    rpc,           \* where each /analyze request stands
    resp,          \* the HTTP status each request was answered with
    found_full,    \* history: the request found no free slot when it asked
    threads,       \* executor: the requests whose job runs in a worker thread
    backlog        \* executor: the jobs waiting for a worker thread

slot_vars == <<max_workers, req_sem, slots, rpc, resp, found_full, threads, backlog>>

\* bounds of the slot model
MaxWorkers == 2
NumReqs == 3

\* MAX_CONCURRENT_REQUESTS
MaxConcurrentRequests == 10

Reqs == 1..NumReqs

\* module level, lines 84-93
SlotsInit(workers) ==
    /\ max_workers = workers
    /\ req_sem = MaxConcurrentRequests
    /\ slots = workers
    /\ rpc = [r \in Reqs |-> "idle"]
    /\ resp = [r \in Reqs |-> 0]
    /\ found_full = [r \in Reqs |-> FALSE]
    /\ threads = {}
    /\ backlog = <<>>

\* no request is made
SlotsIdle == SlotsInit(1)

\* the requests that hold a slot
Holders == {r \in Reqs : rpc[r] = "running"}

\* the tracked requests inside `async with request_semaphore`
InGate == {r \in Reqs : rpc[r] \in {"entered", "waiting", "running", "raw_running"}}

\* the requests inside the gate that are not tracked one by one
OthersInGate == MaxConcurrentRequests - req_sem - Cardinality(InGate)

\* async with request_semaphore, of /analyze and of /predict-raw: the request
\* enters when an entry is free, otherwise it waits in acquire() with no timeout
GateOpen(n) == n > 0

ReqEnter(r) ==
    /\ rpc[r] = "idle"
    /\ IF GateOpen(req_sem)
       THEN /\ req_sem' = req_sem - 1
            /\ rpc' = [rpc EXCEPT ![r] = "entered"]
       ELSE /\ rpc' = [rpc EXCEPT ![r] = "gate_wait"]
            /\ UNCHANGED req_sem
    /\ UNCHANGED <<max_workers, slots, resp, found_full, threads, backlog>>

\* an entry of request_semaphore is released: a request waiting for it enters
ReqEnterLate(r) ==
    /\ rpc[r] = "gate_wait"
    /\ req_sem > 0
    /\ req_sem' = req_sem - 1
    /\ rpc' = [rpc EXCEPT ![r] = "entered"]
    /\ UNCHANGED <<max_workers, slots, resp, found_full, threads, backlog>>

\* another request enters the gate and awaits file.read()
OtherEnter ==
    /\ req_sem > 0
    /\ req_sem' = req_sem - 1
    /\ UNCHANGED <<max_workers, slots, rpc, resp, found_full, threads, backlog>>

\* file.read() of such a request raises: it leaves the gate with HTTP 500
OtherLeave ==
    /\ OthersInGate > 0
    /\ req_sem' = req_sem + 1
    /\ UNCHANGED <<max_workers, slots, rpc, resp, found_full, threads, backlog>>

\* file.read() raises: except Exception answers HTTP 500
ReqReadFails(r) ==
    /\ rpc[r] = "entered"
    /\ resp' = [resp EXCEPT ![r] = 500]
    /\ rpc' = [rpc EXCEPT ![r] = "done"]
    /\ req_sem' = req_sem + 1
    /\ UNCHANGED <<max_workers, slots, found_full, threads, backlog>>

\* loop.run_in_executor(executor, ...): an idle worker takes the job, or it queues
Submit(r) ==
    IF Cardinality(threads) < max_workers
    THEN threads' = threads \cup {r} /\ UNCHANGED backlog
    ELSE backlog' = Append(backlog, r) /\ UNCHANGED threads

\* wait_for(executor_slots.acquire(), timeout=0.001) is reached: a free slot is
\* taken at once, otherwise the request waits in acquire()
ReqAcquire(r) ==
    /\ rpc[r] = "entered"
    /\ IF slots > 0
       THEN /\ slots' = slots - 1
            /\ Submit(r)
            /\ rpc' = [rpc EXCEPT ![r] = "running"]
            /\ found_full' = [found_full EXCEPT ![r] = FALSE]
       ELSE /\ rpc' = [rpc EXCEPT ![r] = "waiting"]
            /\ found_full' = [found_full EXCEPT ![r] = TRUE]
            /\ UNCHANGED <<slots, threads, backlog>>
    /\ UNCHANGED <<max_workers, req_sem, resp>>

\* a slot is released while the request still waits in acquire(): it takes it
ReqAcquireLate(r) ==
    /\ rpc[r] = "waiting"
    /\ slots > 0
    /\ slots' = slots - 1
    /\ Submit(r)
    /\ rpc' = [rpc EXCEPT ![r] = "running"]
    /\ UNCHANGED <<max_workers, req_sem, resp, found_full>>

\* lines 495-500: the 429 answer leaves executor_slots as it is
SlotsAfterBusyReleased(n) == n + 1
SlotsAfterBusy(n) == n

\* the 0.001 s of wait_for pass: HTTP 429
ReqBusy(r) ==
    /\ rpc[r] = "waiting"
    /\ slots' = SlotsAfterBusy(slots)
    /\ resp' = [resp EXCEPT ![r] = 429]
    /\ rpc' = [rpc EXCEPT ![r] = "done"]
    /\ req_sem' = req_sem + 1
    /\ UNCHANGED <<max_workers, found_full, threads, backlog>>

\* lines 502-507: `finally: executor_slots.release()` runs on every way out of
\* the try (path: "returned", "raised", "timeout", "cancelled")
SlotsAfterExitNoFinally(n, path) == IF path = "returned" THEN n + 1 ELSE n
SlotsAfterExit(n, path) == n + 1

\* /predict-raw: the job is given to the executor without a slot
RawSubmit(r) ==
    /\ rpc[r] = "entered"
    /\ Submit(r)
    /\ rpc' = [rpc EXCEPT ![r] = "raw_running"]
    /\ UNCHANGED <<max_workers, req_sem, slots, resp, found_full>>

\* a worker thread becomes free and takes the next job
JobStart ==
    /\ backlog # <<>>
    /\ Cardinality(threads) < max_workers
    /\ threads' = threads \cup {Head(backlog)}
    /\ backlog' = Tail(backlog)
    /\ UNCHANGED <<max_workers, req_sem, slots, rpc, resp, found_full>>

\* process_and_classify_sync returns or raises; a request still waiting for
\* it releases its slot (finally) and answers 200 or 500
JobFinish(j, status) ==
    /\ j \in threads
    /\ threads' = threads \ {j}
    /\ IF rpc[j] \in {"running", "raw_running"}
       THEN /\ slots' = IF rpc[j] = "running"
                        THEN SlotsAfterExit(slots, IF status = 200 THEN "returned" ELSE "raised")
                        ELSE slots
            /\ resp' = [resp EXCEPT ![j] = status]
            /\ rpc' = [rpc EXCEPT ![j] = "done"]
            /\ req_sem' = req_sem + 1
       ELSE UNCHANGED <<slots, resp, rpc, req_sem>>
    /\ UNCHANGED <<max_workers, found_full, backlog>>

\* REQUEST_TIMEOUT passes: the future is cancelled (a job still queued is
\* dropped, a running one keeps its thread), the slot is released, HTTP 504
ReqTimeout(r) ==
    /\ rpc[r] \in {"running", "raw_running"}
    /\ slots' = IF rpc[r] = "running" THEN SlotsAfterExit(slots, "timeout") ELSE slots
    /\ backlog' = SelectSeq(backlog, LAMBDA j : j # r)
    /\ resp' = [resp EXCEPT ![r] = IF rpc[r] = "running" THEN 504 ELSE 500]
    /\ rpc' = [rpc EXCEPT ![r] = "done"]
    /\ req_sem' = req_sem + 1
    /\ UNCHANGED <<max_workers, found_full, threads>>

\* the request's task is cancelled at the await it stands at: CancelledError
\* passes every except clause, `finally` and `async with` release what is held
ReqCancel(r) ==
    /\ rpc[r] \in {"gate_wait", "entered", "waiting", "running", "raw_running"}
    /\ slots' = IF rpc[r] = "running" THEN SlotsAfterExit(slots, "cancelled") ELSE slots
    /\ backlog' = SelectSeq(backlog, LAMBDA j : j # r)
    /\ req_sem' = IF rpc[r] = "gate_wait" THEN req_sem ELSE req_sem + 1
    /\ rpc' = [rpc EXCEPT ![r] = "done"]
    /\ resp' = [resp EXCEPT ![r] = 0]
    /\ UNCHANGED <<max_workers, found_full, threads>>

\* the client sends its next request
ReqReset(r) ==
    /\ rpc[r] = "done"
    /\ r \notin threads
    /\ rpc' = [rpc EXCEPT ![r] = "idle"]
    /\ resp' = [resp EXCEPT ![r] = 0]
    /\ found_full' = [found_full EXCEPT ![r] = FALSE]
    /\ UNCHANGED <<max_workers, req_sem, slots, threads, backlog>>

(***************************************************************************)
(* Properties of the execution slots                                       *)
(***************************************************************************)
\* C10 as stated: the requests holding a slot are never more than the
\* capacity, and with capacity 1 a request that finds the slot taken gets
\* Busy (HTTP 429) and never the slot: it does not wait for the holder.
C10_Original ==
    [][/\ Cardinality(Holders) <= max_workers
       /\ \A r \in Reqs :
             (max_workers = 1 /\ rpc[r] = "waiting") => rpc'[r] \in {"waiting", "done"}]_slot_vars

\* C10, amended: the requests holding a slot are never more than the
\* capacity, and the free slots are the capacity less the holders; only a
\* request that found no free slot waits, for the 0.001 s of wait_for at
\* most, and only such a request is answered Busy (HTTP 429); it takes the
\* slot instead when the holder releases it within that time.
C10_HoldersWithinCapacity ==
    /\ Cardinality(Holders) <= max_workers
    /\ slots = max_workers - Cardinality(Holders)
    /\ \A r \in Reqs :
          /\ rpc[r] = "waiting" => found_full[r]
          /\ resp[r] = 429 => found_full[r] /\ rpc[r] = "done"

\* capacity 1, two requests at once: one holds the slot, the other got 429
C10_Witness ==
    /\ max_workers = 1
    /\ \E r1, r2 \in Reqs :
          /\ rpc[r1] = "running"
          /\ rpc[r2] = "done" /\ resp[r2] = 429 /\ found_full[r2]

\* the /analyze requests that are being served
AnalyzeInFlight == {r \in Reqs : rpc[r] \in {"gate_wait", "entered", "waiting", "running"}}

\* C11: every slot taken is given back exactly once on every way out of the
\* handler (result, classifier exception, REQUEST_TIMEOUT, cancellation): the
\* free slots are always the capacity less the requests holding one, never
\* more than the capacity, and with no /analyze request in flight all slots
\* are free.
C11_SlotsReleasedOnEveryExit ==
    /\ slots \in 0..max_workers
    /\ slots + Cardinality(Holders) = max_workers
    /\ AnalyzeInFlight = {} => slots = max_workers

\* one request timed out while its job still runs, one was answered 500, one
\* ended without an answer (cancelled), none is in flight, all slots are free
C11_Witness ==
    /\ AnalyzeInFlight = {}
    /\ slots = max_workers
    /\ \E r1, r2, r3 \in Reqs :
          /\ rpc[r1] = "done" /\ resp[r1] = 504 /\ r1 \in threads
          /\ rpc[r2] = "done" /\ resp[r2] = 500 /\ ~found_full[r2]
          /\ rpc[r3] = "done" /\ resp[r3] = 0

\* C16 as stated: no request stands blocked waiting for capacity, and a
\* request that found every slot held is answered Busy (HTTP 429) unless it
\* is cancelled: it never gets a slot by waiting for a request in flight.
C16_Original ==
    \A r \in Reqs :
        /\ rpc[r] # "gate_wait"
        /\ found_full[r] =>
              /\ rpc[r] \in {"waiting", "done"}
              /\ rpc[r] = "done" => resp[r] \in {429, 0}

\* the part of C16 about request_semaphore alone: no request waits at the gate
C16_NoRequestWaitsAtGate == \A r \in Reqs : rpc[r] # "gate_wait"

\* C17 as stated: the jobs given to the executor and not yet finished are
\* never more than MAX_WORKERS, and the job of a request that holds a slot
\* runs in a worker thread: it never waits in the executor's queue.
C17_Original ==
    /\ Cardinality(threads) + Len(backlog) <= max_workers
    /\ \A r \in Holders : r \in threads

(***************************************************************************)
(* AnalysisService.analyze_complete of services/analysis_service.py: the   *)
(* face, jersey and time detectors run in the service's ThreadPoolExecutor *)
(* (max_workers = 3) and the caller collects the three futures in order.   *)
(* The routers call it synchronously from async handlers, one call at a    *)
(* time.                                                                   *)
(***************************************************************************)
VARIABLES
    fan_pc,      \* where the call of analyze_complete stands
    det,         \* per detector: its future and what the model lets it do
    fan_clock,   \* time.perf_counter() - total_start
    fan_ret      \* the CompleteAnalysisResponse returned

fan_vars == <<fan_pc, det, fan_clock, fan_ret>>

\* bound: the longest a detector runs
MaxDur == 3

\* the detectors, in the order analyze_complete submits them
Detectors == {"faces", "jerseys", "time_ocr"}

\* what the ML components can answer
FaceValues == {<<>>, <<"f1">>}
JerseyValues == {<<>>, <<"Colombia">>, <<"Other", "Colombia">>}
TimeValues == {None, "9:00", "9:30"}
Pending == "pending"

\* one run of a component: it raises or returns value, after dur
Behaviours(values) == [raises : BOOLEAN, value : values, dur : 1..MaxDur]

\* sum(1 for j in jerseys if j.team == "Colombia")
ColombiaCount(jerseys) == Len(SelectSeq(jerseys, LAMBDA t : t = "Colombia"))

\* a call that returned value, and one that raised
Returned(value) == [raised |-> FALSE, value |-> value]
Raised == [raised |-> TRUE, value |-> None]

\* _detect_faces: every exception of the component becomes []
DetectFacesUncaught(b) == IF b.raises THEN Raised ELSE Returned(b.value)
DetectFaces(b) == Returned(IF b.raises THEN <<>> ELSE b.value)

\* _detect_jerseys: every exception becomes ([], 0)
DetectJerseys(b) ==
    Returned(IF b.raises
             THEN [jerseys |-> <<>>, colombia_count |-> 0]
             ELSE [jerseys |-> b.value, colombia_count |-> ColombiaCount(b.value)])

\* _detect_time: every exception becomes None
DetectTime(b) == Returned(IF b.raises THEN None ELSE b.value)

\* what the future of detector d holds when the component did b
DetectorResult(d, b) ==
    CASE d = "faces" -> DetectFaces(b)
      [] d = "jerseys" -> DetectJerseys(b)
      [] d = "time_ocr" -> DetectTime(b)

NoBehaviour == [raises |-> FALSE, value |-> None, dur |-> 1]
NoFuture == [st |-> "none", out |-> Returned(Pending), elapsed |-> 0, beh |-> NoBehaviour]

\* AnalysisService.__init__, no call made
FanIdle ==
    /\ fan_pc = "idle"
    /\ det = [d \in Detectors |-> NoFuture]
    /\ fan_clock = 0
    /\ fan_ret = None

\* lines 183-189: the three detectors are submitted; with three workers and one
\* call at a time each starts at once
FanCall ==
    /\ fan_pc = "idle"
    /\ fan_clock' = 0
    /\ \E bf \in Behaviours(FaceValues), bj \in Behaviours(JerseyValues),
          bt \in Behaviours(TimeValues) :
          det' = [d \in Detectors |->
                    [st |-> "running", out |-> Returned(Pending), elapsed |-> 0,
                     beh |-> CASE d = "faces" -> bf [] d = "jerseys" -> bj
                               [] d = "time_ocr" -> bt]]
    /\ fan_pc' = "wait_faces"
    /\ fan_ret' = None

\* time passes while detectors run
FanTick ==
    /\ \E d \in Detectors : det[d].st = "running"
    /\ \A d \in Detectors : det[d].st = "running" => fan_clock < det[d].beh.dur
    /\ fan_clock' = fan_clock + 1
    /\ UNCHANGED <<fan_pc, det, fan_ret>>

\* the worker thread of detector d ends: the future holds the wrapper's result
DetFinish(d) ==
    /\ det[d].st = "running"
    /\ fan_clock = det[d].beh.dur
    /\ det' = [det EXCEPT ![d] = [st |-> "done", out |-> DetectorResult(d, det[d].beh),
                                  elapsed |-> fan_clock, beh |-> det[d].beh]]
    /\ UNCHANGED <<fan_pc, fan_clock, fan_ret>>

\* future.result(), lines 192-194: blocks until the future is done, no
\* timeout, then returns its value or raises what its function raised
FutureResultWithin(f, waited) ==
    IF f.st = "done" THEN [ready |-> TRUE, raised |-> f.out.raised]
    ELSE [ready |-> waited >= 1, raised |-> TRUE]
FutureResult(f, waited) ==
    IF f.st = "done" THEN [ready |-> TRUE, raised |-> f.out.raised]
    ELSE [ready |-> FALSE, raised |-> FALSE]

\* lines 196-216
CompleteAnalysisResponse ==
    [num_faces |-> Len(det["faces"].out.value),
     faces |-> det["faces"].out.value,
     jerseys |-> det["jerseys"].out.value.jerseys,
     colombia_count |-> det["jerseys"].out.value.colombia_count,
     match_time |-> det["time_ocr"].out.value,
     image_processed |-> TRUE,
     total_detections |-> Len(det["faces"].out.value) + Len(det["jerseys"].out.value.jerseys),
     processing_times |-> [total |-> fan_clock,
                           faces |-> det["faces"].elapsed,
                           jerseys |-> det["jerseys"].elapsed,
                           time_ocr |-> det["time_ocr"].elapsed]]

\* the caller takes the result of the future it waits for; an exception of
\* result() leaves analyze_complete; after the third result the response is built
FanCollect(d) ==
    /\ fan_pc = CASE d = "faces" -> "wait_faces"
                  [] d = "jerseys" -> "wait_jerseys"
                  [] d = "time_ocr" -> "wait_time"
    /\ FutureResult(det[d], fan_clock).ready
    /\ IF FutureResult(det[d], fan_clock).raised
       THEN fan_pc' = "raised" /\ UNCHANGED fan_ret
       ELSE CASE d = "faces" -> fan_pc' = "wait_jerseys" /\ UNCHANGED fan_ret
              [] d = "jerseys" -> fan_pc' = "wait_time" /\ UNCHANGED fan_ret
              [] d = "time_ocr" -> fan_pc' = "returned" /\ fan_ret' = CompleteAnalysisResponse
    /\ UNCHANGED <<det, fan_clock>>

\* the next call
FanReset ==
    /\ fan_pc \in {"returned", "raised"}
    /\ \A d \in Detectors : det[d].st = "done"
    /\ fan_pc' = "idle"
    /\ det' = [d \in Detectors |-> NoFuture]
    /\ fan_clock' = 0
    /\ fan_ret' = None

(***************************************************************************)
(* Properties of the fan-out                                               *)
(***************************************************************************)
\* C12: a detector that raises neither aborts nor alters its siblings: the
\* call never raises, and the response holds, for each detector, the value
\* its component returned (the empty outcome if it raised) and its elapsed
\* time, plus the total elapsed time.
C12_FailureIsolation ==
    /\ fan_pc # "raised"
    /\ fan_pc = "returned" =>
          /\ fan_ret.faces =
                (IF det["faces"].beh.raises THEN <<>> ELSE det["faces"].beh.value)
          /\ fan_ret.num_faces = Len(fan_ret.faces)
          /\ fan_ret.jerseys =
                (IF det["jerseys"].beh.raises THEN <<>> ELSE det["jerseys"].beh.value)
          /\ fan_ret.colombia_count = ColombiaCount(fan_ret.jerseys)
          /\ fan_ret.match_time =
                (IF det["time_ocr"].beh.raises THEN None ELSE det["time_ocr"].beh.value)
          /\ DOMAIN fan_ret.processing_times = {"total", "faces", "jerseys", "time_ocr"}
          /\ \A d \in Detectors : fan_ret.processing_times[d] = det[d].beh.dur

\* the face component raised, the others answered, and the response has them
C12_Witness ==
    /\ fan_pc = "returned"
    /\ det["faces"].beh.raises
    /\ ~det["jerseys"].beh.raises /\ ~det["time_ocr"].beh.raises
    /\ fan_ret.faces = <<>>
    /\ fan_ret.jerseys = <<"Other", "Colombia">>
    /\ fan_ret.match_time = "9:30"

VARIABLES
    at_resp      \* the last /analyze-time request: what it detected and its response

at_vars == <<at_resp>>

\* what service.analyze_complete(img) can return: the detections and the time
\* its own OCR run read
CompleteResults == [data : Results, match_time : Times \cup {None}]

\* processing_times of a CompleteAnalysisResponse
ProcessingTimes == "processing_times"

\* no request yet
NoResponse ==
    [n |-> 0, detected |-> None, status |-> 0, source |-> None, match_time |-> None,
     data |-> None, processing_times |-> None, ran |-> FALSE]

AnalyzeIdle == at_resp = NoResponse

\* `if cached_result:`: None is falsy, a stored cache_data dict has six keys
\* and is truthy
CacheHitNever(cached_result) == FALSE
CacheHit(cached_result) == cached_result # None

\* cache_data: the detections of the analysis, without its processing times
\* and without its match_time
CacheData(complete_result) == complete_result.data

\* CachedAnalysisResponse(...); ran tells whether analyze_complete was called
CachedAnalysisResponse(t, source, data, times, ran) ==
    [n |-> 1 - at_resp.n, detected |-> t, status |-> 200, source |-> source,
     match_time |-> t, data |-> data, processing_times |-> times, ran |-> ran]

\* HTTPException(status_code, ...)
HTTPException(t, status_code, ran) ==
    [n |-> 1 - at_resp.n, detected |-> t, status |-> status_code, source |-> None,
     match_time |-> None, data |-> None, processing_times |-> None, ran |-> ran]

\* POST /analyze-time on a frame whose time-only OCR reads t (None: no time)
\* and whose full analysis would return complete_result.  A get that misses
\* changes nothing in the cache service.
AnalyzeTime(t, complete_result) ==
    IF t = None
    THEN /\ at_resp' = HTTPException(None, 404, FALSE)
         /\ UNCHANGED ac_vars
    ELSE IF CacheHit(DictGet(cache, t))
         THEN /\ ACGet(t)
              /\ at_resp' = CachedAnalysisResponse(t, "cache", DictGet(cache, t), None, FALSE)
         ELSE /\ ACSet(t, CacheData(complete_result))
              /\ at_resp' = IF ac_ret'.ret = "IndexError"
                            THEN HTTPException(t, 500, TRUE)
                            ELSE CachedAnalysisResponse(t, "new_analysis",
                                     complete_result.data, ProcessingTimes, TRUE)

\* POST /analyze-complete: the result is stored under the time the full
\* analysis read, when it read one
AnalyzeComplete(result) ==
    /\ IF result.match_time # None
       THEN ACSet(result.match_time, CacheData(result))
       ELSE UNCHANGED ac_vars
    /\ UNCHANGED at_resp

\* DELETE /cache/time/{match_time}
RemoveTimeFromCache(match_time) == ACRemove(match_time) /\ UNCHANGED at_resp

\* POST /cache/clear
ClearCache == ACClear /\ UNCHANGED at_resp

(***************************************************************************)
(* Properties of /analyze-time                                             *)
(***************************************************************************)
\* C15: a /analyze-time request whose detected time t is in the cache (it was
\* stored by an earlier analysis and not evicted, removed or cleared since)
\* is answered with source "cache" and the stored detections, runs no full
\* analysis and leaves the cache as it is; a request whose time is not in the
\* cache runs the full analysis, answers with source "new_analysis" and
\* stores the detections under t.
C15_CacheHitAfterNewAnalysis ==
    [][(at_resp'.n # at_resp.n /\ at_resp'.detected # None) =>
         LET t == at_resp'.detected
         IN  IF DictHas(cache, t)
             THEN /\ at_resp'.status = 200
                  /\ at_resp'.source = "cache"
                  /\ at_resp'.match_time = t
                  /\ at_resp'.data = DictGet(cache, t)
                  /\ ~at_resp'.ran
                  /\ cache' = cache /\ queue' = queue
             ELSE /\ at_resp'.status = 200
                  /\ at_resp'.source = "new_analysis"
                  /\ at_resp'.ran
                  /\ DictHas(cache', t)
                  /\ DictGet(cache', t) = at_resp'.data]_<<ac_vars, at_vars>>

\* 9:30 was analysed and stored, 10:00 was stored after it, and a later
\* request for 9:30 was answered from the cache with the stored detections
C15_Witness ==
    /\ queue = <<"9:30", "10:00">>
    /\ at_resp.source = "cache"
    /\ at_resp.match_time = "9:30"
    /\ at_resp.data = "r2"
    /\ DictGet(cache, "9:30") = "r2"
    /\ "9:30" \in reads

(***************************************************************************)
(* The diff of the stream loop over a run of snapshots: one generator that *)
(* stays subscribed, its local baseline, and what each tick reports.  The  *)
(* tick is lines 58-92 of stream_match_events with the yield taken.        *)
(***************************************************************************)
VARIABLES
    rb_baseline,   \* the local variable baseline of the generator
    rb_new,        \* new_events of the last tick
    rb_gone,       \* history: records once in the baseline and absent from the last snapshot
    rb_quiet,      \* history: gone records with no new event found since they went
    rb_back        \* history: what the last tick saw come back, [quiet, loud]

rb_vars == <<rb_baseline, rb_new, rb_gone, rb_quiet, rb_back>>

\* snapshots as _get_current_events returns them
Snapshots == {SortByMinuto(q) : q \in RawEvents}

NoneBack == [quiet |-> {}, loud |-> {}]

\* the generator after its ready message, lines 35-36
DiffInit(initial) ==
    /\ rb_baseline = initial
    /\ rb_new = <<>>
    /\ rb_gone = {}
    /\ rb_quiet = {}
    /\ rb_back = NoneBack

DiffIdle == DiffInit(<<>>)

\* one tick whose fetches succeed, lines 58-92
DiffTick(current_events) ==
    LET new_events == GetNewEvents(rb_baseline, current_events)
        fresh == Range(current_events)
        went == Range(rb_baseline) \ fresh
    IN /\ rb_new' = new_events
       /\ rb_baseline' = BaselineAfterTick(rb_baseline, new_events, current_events)
       /\ rb_back' = [quiet |-> rb_gone \cap rb_quiet \cap fresh,
                      loud |-> (rb_gone \ rb_quiet) \cap fresh]
       /\ rb_gone' = (rb_gone \cup went) \ fresh
       /\ rb_quiet' = IF new_events # <<>> THEN {}
                      ELSE (rb_quiet \cup went) \ fresh

\* one tick whose events fetch raises, lines 99-104: an error message, the
\* baseline is kept
DiffTickRaises ==
    /\ rb_new' = <<>>
    /\ rb_back' = NoneBack
    /\ UNCHANGED <<rb_baseline, rb_gone, rb_quiet>>

(***************************************************************************)
(* Properties of the diff over a run of snapshots                          *)
(***************************************************************************)
\* C21 as stated: a record that was in the baseline, went missing from a
\* later snapshot and is back in the snapshot of this tick is not among the
\* new events of this tick, whatever the snapshots in between were.
C21_Original ==
    (rb_back.quiet \cup rb_back.loud) \cap Range(rb_new) = {}

\* C21: a record that was in the baseline, went missing and is back is not
\* among the new events of the tick that sees it back when no tick since it
\* went missing (that tick included) found a new event; when one did, the
\* record is reported as new.
C21_SilentOnlyWhileBaselineKept ==
    /\ rb_back.quiet \cap Range(rb_new) = {}
    /\ rb_back.loud \subseteq Range(rb_new)

\* baseline [A,B], then [B], then [A,B]: A is back and nothing is reported
C21_Witness ==
    /\ rb_baseline = <<EvA, EvB>>
    /\ rb_back = [quiet |-> {EvA}, loud |-> {}]
    /\ rb_new = <<>>

\* baseline [A,B], then [B,C], then [A,B,C]: A is back and is reported
C21_WitnessReported ==
    /\ rb_back = [quiet |-> {}, loud |-> {EvA}]
    /\ rb_new = <<EvA>>

(***************************************************************************)
(* AnalysisCacheService under two threads: set runs in the event loop      *)
(* thread (the async analyze routes), get_stats in a worker thread (the    *)
(* synchronous /health route).  No lock is taken; the interpreter switches *)
(* threads between the statements of either method.                        *)
(***************************************************************************)
VARIABLES
    ws,      \* the set call in progress: where it stands, its arguments
    rs       \* the get_stats call in progress: where it stands, what it has read

st_vars == <<ws, rs>>

NoSet == [pc |-> "idle", key |-> None, val |-> None, oldest |-> None]
NoStats == [pc |-> "idle", size |-> 0, times_cached |-> <<>>,
            oldest_time |-> None, newest_time |-> None]

StatsIdle == ws = NoSet /\ rs = NoStats

\* AnalysisCacheService.set(match_time, result), statement by statement
SetStep(match_time, result) ==
    /\ CASE ws.pc = "idle" ->
              IF DictHas(cache, match_time)
              THEN /\ cache' = DictMoveToEnd(cache, match_time)
                   /\ ws' = [NoSet EXCEPT !.pc = "moved", !.key = match_time, !.val = result]
                   /\ UNCHANGED queue
              ELSE IF LimitReached(Len(cache), max_size)
                   THEN IF queue = <<>>
                        THEN UNCHANGED <<cache, queue, ws>>
                        ELSE /\ queue' = PopOldest(queue).rest
                             /\ ws' = [pc |-> "popped", key |-> match_time, val |-> result,
                                       oldest |-> PopOldest(queue).time]
                             /\ UNCHANGED cache
                   ELSE /\ cache' = DictSetItem(cache, match_time, result)
                        /\ ws' = [NoSet EXCEPT !.pc = "stored", !.key = match_time,
                                               !.val = result]
                        /\ UNCHANGED queue
         [] ws.pc = "moved" ->
              /\ cache' = DictSetItem(cache, ws.key, ws.val)
              /\ ws' = [ws EXCEPT !.pc = "assigned"]
              /\ UNCHANGED queue
         [] ws.pc = "assigned" ->
              /\ queue' = ListRemove(queue, ws.key)
              /\ ws' = [ws EXCEPT !.pc = "unqueued"]
              /\ UNCHANGED cache
         [] ws.pc = "popped" ->
              /\ cache' = DictPop(cache, ws.oldest)
              /\ ws' = [ws EXCEPT !.pc = "evicted"]
              /\ UNCHANGED queue
         [] ws.pc = "evicted" ->
              /\ cache' = DictSetItem(cache, ws.key, ws.val)
              /\ ws' = [ws EXCEPT !.pc = "stored"]
              /\ UNCHANGED queue
         [] ws.pc \in {"unqueued", "stored"} ->
              /\ queue' = Append(queue, ws.key)
              /\ ws' = NoSet
              /\ UNCHANGED cache
    /\ ws.pc # "idle" => match_time = ws.key /\ result = ws.val
    /\ UNCHANGED <<max_size, ac_ret, written, reads, rs>>

\* AnalysisCacheService.get_stats(), one entry of the returned dict at a time
StatsStep ==
    /\ CASE rs.pc = "idle" -> rs' = [NoStats EXCEPT !.pc = "size", !.size = Len(cache)]
         [] rs.pc = "size" -> rs' = [rs EXCEPT !.pc = "times", !.times_cached = queue]
         [] rs.pc = "times" ->
              rs' = [rs EXCEPT !.pc = "oldest",
                               !.oldest_time = IF queue # <<>> THEN queue[1] ELSE None]
         [] rs.pc = "oldest" ->
              rs' = [rs EXCEPT !.pc = "returned",
                               !.newest_time = IF queue # <<>> THEN queue[Len(queue)]
                                               ELSE None]
         [] rs.pc = "returned" -> rs' = NoStats
    /\ UNCHANGED <<ac_vars, ws>>

(***************************************************************************)
(* Properties of the cache under two threads                               *)
(***************************************************************************)
\* C23: the dict a get_stats call returns while a set is running is a
\* consistent snapshot: size is the length of times_cached, size is at most
\* max_size, and oldest_time and newest_time are keys in the cache.
C23_Original ==
    rs.pc = "returned" =>
        /\ rs.size = Len(rs.times_cached)
        /\ rs.size <= max_size
        /\ rs.oldest_time # None => DictHas(cache, rs.oldest_time)
        /\ rs.newest_time # None => DictHas(cache, rs.newest_time)

\* what holds of every returned dict: size never exceeds max_size
C23_SizeWithinMaxSize ==
    rs.pc = "returned" => rs.size <= max_size

(***************************************************************************)
(* MatchEventsService.get_recent_events of services/match_events_service.py *)
(* and its private cache of (time of storing, events) per cache key.       *)
(* datetime.now() is counted in whole seconds.                             *)
(***************************************************************************)
VARIABLES
    me_now,      \* datetime.now(), in seconds
    me_cache,    \* self._cache: cache key -> (cached_time, cached_events), when stored
    me_ret       \* history: the last call, where its answer came from, the age it saw

me_vars == <<me_now, me_cache, me_ret>>

\* bounds of the clock: whole days and seconds past them
MaxDays == 1
MaxSecs == 6

\* self.cache_ttl, and the seconds of a day (timedelta.seconds is what is
\* left of a duration after its whole days)
CacheTTLSeconds == 5
DaySeconds == 86400

\* f"{match_id}_{last_minutes}"
CacheKeys == {"m1_2", "m1_5"}

\* what the upstream answers: a list of events, or the request raises
EventLists == {"events1", "events2"}

\* cache_key not in self._cache
NoEntry == [stored |-> FALSE, cached_time |-> 0, cached_events |-> None]

NoCall == [key |-> None, from_cache |-> FALSE, events |-> None, age |-> -1]

MatchEventsIdle ==
    /\ me_now = 0
    /\ me_cache = [k \in CacheKeys |-> NoEntry]
    /\ me_ret = NoCall

\* (datetime.now() - cached_time).seconds, for a cached_time not in the future
TimedeltaSeconds(delta) == delta % DaySeconds

\* if (datetime.now() - cached_time).seconds < self.cache_ttl
IsFresh(cached_time) == TimedeltaSeconds(me_now - cached_time) < CacheTTLSeconds

\* get_recent_events(match_id, last_minutes) while the upstream would give answer
GetRecentEvents(cache_key, answer) ==
    IF me_cache[cache_key].stored /\ IsFresh(me_cache[cache_key].cached_time)
    THEN /\ me_ret' = [key |-> cache_key, from_cache |-> TRUE,
                       events |-> me_cache[cache_key].cached_events,
                       age |-> me_now - me_cache[cache_key].cached_time]
         /\ UNCHANGED <<me_now, me_cache>>
    ELSE /\ me_ret' = [key |-> cache_key, from_cache |-> FALSE,
                       events |-> IF answer = Raise THEN "[]" ELSE answer,
                       age |-> IF ~me_cache[cache_key].stored THEN -1
                               ELSE me_now - me_cache[cache_key].cached_time]
         /\ me_cache' = IF answer = Raise THEN me_cache
                        ELSE [me_cache EXCEPT ![cache_key] =
                                 [stored |-> TRUE, cached_time |-> me_now,
                                  cached_events |-> answer]]
         /\ UNCHANGED me_now

\* a second passes
MeSecond ==
    /\ me_now % DaySeconds < MaxSecs
    /\ me_now' = me_now + 1
    /\ UNCHANGED <<me_cache, me_ret>>

\* a day passes
MeDay ==
    /\ me_now \div DaySeconds < MaxDays
    /\ me_now' = me_now + DaySeconds
    /\ UNCHANGED <<me_cache, me_ret>>

(***************************************************************************)
(* Properties of MatchEventsService                                        *)
(***************************************************************************)
\* C24: get_recent_events answers from its cache only when the entry was
\* stored less than cache_ttl (5) seconds ago; for every age of 5 seconds or
\* more it queries the upstream.
C24_Original ==
    me_ret.key # None =>
        (me_ret.from_cache <=> (me_ret.age >= 0 /\ me_ret.age < CacheTTLSeconds))

\* what holds: within a day of the storing the cache answers exactly while
\* the age is below cache_ttl
C24_WithinOneDay ==
    (me_ret.key # None /\ me_ret.age < DaySeconds) =>
        (me_ret.from_cache <=> (me_ret.age >= 0 /\ me_ret.age < CacheTTLSeconds))

(***************************************************************************)
(* CommentaryService.generate_commentary of services/commentary_service.py *)
(* over comment_cache = CommentCache(ttl_seconds=60) of core/cache.py, for *)
(* one match.  The handler has no await: a call is one step.               *)
(***************************************************************************)
VARIABLES
    cc_now,      \* time.time(), in seconds
    cc_store,    \* comment_cache.store[match_id]: (timestamp, hash, comentario), when stored
    cc_ret,      \* the answer of the last call
    cc_fresh     \* history: the last two commentaries returned with from_cache false

cc_vars == <<cc_now, cc_store, cc_ret, cc_fresh>>

MaxCommentClock == 62

\* comment_cache = CommentCache(ttl_seconds=60)
CommentTTL == 60

\* what the language model can answer, stripped; the sentence used instead of
\* a repetition
Generated == {"", "Gol de Colombia", "Tiro de esquina"}
Fallback == "Continua el partido sin novedades importantes."

\* hashlib.md5(text.encode()).hexdigest()
Md5(text) == <<"md5", text>>
NoHash == <<>>

NoComment == [stored |-> FALSE, timestamp |-> 0, hash |-> NoHash, comentario |-> None]
NoAnswer == [commentary |-> None, from_cache |-> FALSE]

CommentaryIdle ==
    /\ cc_now = 0
    /\ cc_store = NoComment
    /\ cc_ret = NoAnswer
    /\ cc_fresh = <<>>

\* CommentCache.get(match_id): the store after the call and what it returns
CommentStoreAfterGet ==
    IF cc_store.stored /\ cc_now - cc_store.timestamp > CommentTTL THEN NoComment
    ELSE cc_store
CommentGet == CommentStoreAfterGet.comentario

\* CommentCache.get_last_hash(match_id) on a store
GetLastHash(entry) == IF entry.stored THEN entry.hash ELSE NoHash

\* CommentCache.set(match_id, comentario)
CommentSet(comentario) ==
    [stored |-> TRUE, timestamp |-> cc_now, hash |-> Md5(comentario),
     comentario |-> comentario]

\* `if cached_comment:`: None and the empty string are falsy
Truthy(text) == text # None /\ text # ""

\* lines 63-67: the commentary kept after the comparison of the hashes
AvoidRepetition(commentary, last_hash) ==
    IF Md5(commentary) = last_hash THEN Fallback ELSE commentary

\* generate_commentary(match_id, match_data) while the language model would
\* answer text; match_data carries current_events
GenerateCommentary(text, current_events) ==
    IF Truthy(CommentGet)
    THEN /\ cc_ret' = [commentary |-> CommentGet, from_cache |-> TRUE]
         /\ cc_store' = CommentStoreAfterGet
         /\ UNCHANGED <<cc_now, cc_fresh, stream_vars>>
    ELSE /\ last_events' = current_events
         /\ UNCHANGED <<pc, baseline, pending, last_status, out, tick, fetch_times>>
         /\ IF text = Raise
            THEN /\ cc_store' = CommentStoreAfterGet
                 /\ UNCHANGED <<cc_now, cc_ret, cc_fresh>>
            ELSE LET commentary ==
                         AvoidRepetition(text, GetLastHash(CommentStoreAfterGet))
                 IN /\ cc_store' = CommentSet(commentary)
                    /\ cc_ret' = [commentary |-> commentary, from_cache |-> FALSE]
                    /\ cc_fresh' = LastN(Append(cc_fresh, commentary), 2)
                    /\ UNCHANGED cc_now

\* a second passes
CommentTick ==
    /\ cc_now < MaxCommentClock
    /\ cc_now' = cc_now + 1
    /\ UNCHANGED <<cc_store, cc_ret, cc_fresh>>

(***************************************************************************)
(* Properties of generate_commentary                                       *)
(***************************************************************************)
\* C25: two consecutive commentaries returned with from_cache false for the
\* match are the same text only when that text is the fallback sentence: a
\* generated text equal to the one last stored is replaced by the fallback.
C25_Original ==
    (Len(cc_fresh) = 2 /\ cc_fresh[1] = cc_fresh[2]) => cc_fresh[2] = Fallback

\* the comparison of the hashes succeeds only against a stored empty
\* commentary: whenever the fallback was put in place, the commentary stored
\* before it was the empty string
C25_FallbackOnlyAfterEmpty ==
    (Len(cc_fresh) = 2 /\ cc_fresh[2] = Fallback) => cc_fresh[1] = ""

(***************************************************************************)
(* FootballAPIService.diff_new_events of services/football_service.py over *)
(* CacheManager._last_events of core/cache.py, for one fixture.  An event  *)
(* stands for its _key, a number.                                          *)
(***************************************************************************)
VARIABLES
    dn_last,     \* cache_manager._last_events[fixture_id]
    dn_seen,     \* history: the keys of every snapshot passed so far
    dn_ret,      \* history: the last call, its snapshot, its result, the keys seen before it
    dn_calls     \* history: the calls since the cache was cleared

dn_vars == <<dn_last, dn_seen, dn_ret, dn_calls>>

\* set_last_events keeps the last 300 events of a fixture
MaxEventsKept == 300

\* how far the snapshots of the model reach past that limit, and how many
\* calls the model follows between two clears
MaxPast == 1
MaxCalls == 5

\* the events lo..hi in upstream order
Span(lo, hi) == [i \in 1..(hi - lo + 1) |-> lo + i - 1]

\* snapshots of a list that upstream only appends to: short ones, and ones
\* around the limit
UpstreamSnapshots ==
    {Span(1, hi) : hi \in (0..1) \cup ((MaxEventsKept - 1)..(MaxEventsKept + MaxPast))}

NoDiff == [snapshot |-> <<>>, new |-> <<>>, seen_before |-> {}]

DiffNewIdle ==
    /\ dn_last = <<>>
    /\ dn_seen = {}
    /\ dn_ret = NoDiff
    /\ dn_calls = 0

\* CacheManager.set_last_events(fixture_id, events): the stored list
Kept(events) ==
    IF Len(events) > MaxEventsKept THEN LastN(events, MaxEventsKept) ELSE events

\* line 128: prev_keys
PrevKeys(prev_events) == Range(prev_events)

\* line 130: the events whose _key is not a key of the stored events
NewByKey(prev_keys, new_events) ==
    SelectSeq(new_events, LAMBDA e : e \notin prev_keys)

\* lines 132-134: what is stored after the call
NotMerged(prev_events, new) == IF new # <<>> THEN Kept(new) ELSE prev_events
Merged(prev_events, new) ==
    IF new # <<>> THEN Kept(prev_events \o new) ELSE prev_events

\* diff_new_events(fixture_id, new_events)
DiffNewEvents(new_events) ==
    LET prev_events == dn_last
        prev_keys == PrevKeys(prev_events)
        new == NewByKey(prev_keys, new_events)
    IN /\ dn_calls < MaxCalls
       /\ dn_calls' = dn_calls + 1
       /\ dn_last' = Merged(prev_events, new)
       /\ dn_ret' = [snapshot |-> new_events, new |-> new, seen_before |-> dn_seen]
       /\ dn_seen' = dn_seen \cup Range(new_events)

\* CacheManager.clear()
DiffNewClear ==
    /\ dn_last' = <<>>
    /\ dn_seen' = {}
    /\ dn_ret' = NoDiff
    /\ dn_calls' = 0

(***************************************************************************)
(* Properties of diff_new_events                                           *)
(***************************************************************************)
\* the events of the last snapshot whose key was in no earlier snapshot
NeverSeen ==
    LET before == dn_ret.seen_before
    IN  SelectSeq(dn_ret.snapshot, LAMBDA e : e \notin before)

\* C26 as stated: each call returns exactly the events whose _key was in no
\* earlier snapshot of the fixture, for any number of events.
C26_Original == dn_ret.new = NeverSeen

\* C26: each call returns exactly the events whose _key was in no earlier
\* snapshot of the fixture, as long as the snapshots so far, this one
\* included, hold no more than 300 different events.
C26_NewOnceUpToLimit ==
    Cardinality(dn_ret.seen_before \cup Range(dn_ret.snapshot)) <= MaxEventsKept =>
        dn_ret.new = NeverSeen

\* 299 events were reported before; the call with 300 events reports the
\* 300th alone
C26_Witness ==
    /\ Cardinality(dn_ret.seen_before) = MaxEventsKept - 1
    /\ Len(dn_ret.snapshot) = MaxEventsKept
    /\ dn_ret.new = <<MaxEventsKept>>
    /\ Len(dn_last) = MaxEventsKept

(***************************************************************************)
(* The cached upstream reads of FootballAPIService                         *)
(* (services/football_service.py) over CacheManager._cache and             *)
(* CacheManager._stats_cache of core/cache.py, for one fixture and         *)
(* use_cache = True.  time.time() is counted in whole seconds.             *)
(***************************************************************************)
VARIABLES
    up_now,      \* time.time()
    up_cache,    \* the entry of each read: _cache["live_fixtures"],
                 \* _cache["lineups_1"], _stats_cache[1]
    up_ret       \* history: the last read, the entry and the clock it found, its answer

up_vars == <<up_now, up_cache, up_ret>>

\* bounds of the clock: whole hours, whole minutes and seconds past them
MaxUpHours == 1
MaxUpMinutes == 1
MaxUpSecs == 1

\* the ttl each read passes to the cache
LiveTTL == 60
LineupsTTL == 3600
StatsTTL == 60

Reads == {"get_live_fixtures", "get_fixture_lineups", "get_fixture_statistics"}

TTLOf(read) ==
    CASE read = "get_live_fixtures" -> LiveTTL
      [] read = "get_fixture_lineups" -> LineupsTTL
      [] read = "get_fixture_statistics" -> StatsTTL

\* what the upstream answers: response.json() or its "response" list,
\* empty or not
Responses == {<<>>, <<"r1">>, <<"r2">>}

NoUpEntry == [stored |-> FALSE, data |-> <<>>, timestamp |-> 0]
NoRead == [read |-> None, had |-> NoUpEntry, now |-> 0, upstream |-> FALSE,
           raised |-> FALSE, data |-> <<>>]

UpstreamIdle ==
    /\ up_now = 0
    /\ up_cache = [r \in Reads |-> NoUpEntry]
    /\ up_ret = NoRead

\* CacheManager.get / get_stats: is the entry returned
UpAlive(entry, max_age) == entry.stored /\ ~(up_now - entry.timestamp > max_age)

\* CacheManager.get / get_stats: the entry after the call (an expired one
\* is deleted)
UpAfterGet(entry, max_age) == IF UpAlive(entry, max_age) THEN entry ELSE NoUpEntry

\* `if cached:` on the value cache_manager.get returned
UseCached(entry, max_age) == UpAlive(entry, max_age) /\ entry.data # <<>>

\* get_live_fixtures / get_fixture_lineups / get_fixture_statistics while
\* the upstream would give answer (ok) or the request raises (~ok)
CachedRead(read, answer, ok) ==
    LET entry == up_cache[read]
        max_age == TTLOf(read)
    IN /\ IF UseCached(entry, max_age)
          THEN /\ up_ret' = [read |-> read, had |-> entry, now |-> up_now,
                             upstream |-> FALSE, raised |-> FALSE, data |-> entry.data]
               /\ UNCHANGED up_cache
          ELSE IF ok
          THEN /\ up_ret' = [read |-> read, had |-> entry, now |-> up_now,
                             upstream |-> TRUE, raised |-> FALSE, data |-> answer]
               /\ up_cache' = [up_cache EXCEPT ![read] =
                                  [stored |-> TRUE, data |-> answer, timestamp |-> up_now]]
          ELSE /\ up_ret' = [read |-> read, had |-> entry, now |-> up_now,
                             upstream |-> TRUE, raised |-> TRUE, data |-> <<>>]
               /\ up_cache' = [up_cache EXCEPT ![read] = UpAfterGet(entry, max_age)]
       /\ UNCHANGED up_now

\* CacheManager.clear()
UpClear ==
    /\ up_cache' = [r \in Reads |-> NoUpEntry]
    /\ up_ret' = NoRead
    /\ UNCHANGED up_now

\* a second, a minute, an hour passes
UpSecond ==
    /\ up_now % 60 < MaxUpSecs
    /\ up_now' = up_now + 1
    /\ UNCHANGED <<up_cache, up_ret>>

UpMinute ==
    /\ (up_now % 3600) \div 60 < MaxUpMinutes
    /\ up_now' = up_now + 60
    /\ UNCHANGED <<up_cache, up_ret>>

UpHour ==
    /\ up_now \div 3600 < MaxUpHours
    /\ up_now' = up_now + 3600
    /\ UNCHANGED <<up_cache, up_ret>>

(***************************************************************************)
(* Properties of the cached upstream reads                                 *)
(***************************************************************************)
\* the last read found a response stored within its TTL
UpStoredWithinTTL ==
    /\ up_ret.read # None
    /\ up_ret.had.stored
    /\ up_ret.now - up_ret.had.timestamp <= TTLOf(up_ret.read)

\* C27: after a call stored a response, every further call for the same key
\* within the TTL returns the stored value unchanged and makes no upstream
\* request, whatever the stored response is, an empty list included.
C27_Original ==
    UpStoredWithinTTL =>
        /\ ~up_ret.upstream
        /\ up_ret.data = up_ret.had.data

\* what holds: a stored response that is not empty is returned unchanged,
\* without an upstream request, within the TTL
C27_NonEmptyServedFromCache ==
    (UpStoredWithinTTL /\ up_ret.had.data # <<>>) =>
        /\ ~up_ret.upstream
        /\ up_ret.data = up_ret.had.data

(***************************************************************************)
(* refresh_match_data of tasks.py over football_cache                      *)
(* (cache_managerask.py) and match_data_cache (core/cache.py).  The two    *)
(* routes that await it may be between its request and its response at    *)
(* the same time; everything after the response runs without an await.    *)
(***************************************************************************)
VARIABLES
    rf_now,       \* time.time()
    rf_pc,        \* per calling route: "idle", or "awaiting" the response of client.get
    rf_match_id,  \* per calling route: the match_id of its call
    rf_football,  \* football_cache.data: match_id -> entry
    rf_match,     \* match_data_cache.store: match_id -> entry
    rf_ret        \* history: the last call that ended, its response and result

rf_vars == <<rf_now, rf_pc, rf_match_id, rf_football, rf_match, rf_ret>>

\* bound of the clock
MaxRefreshClock == 1

\* the routes that await refresh_match_data
Refreshers == {"ask_commentator", "get_match_commentary"}

MatchIds == {1, 2}

\* what the request gives: it raises (connection refused, timeout), or a
\* response with a status and a body that is no JSON, an empty JSON value,
\* or match data
StatusCodes == {200, 404}
MatchData == {"data1", "data2"}
Bodies == {"not json", "{}"} \cup MatchData
Answers == {[raised |-> TRUE, status_code |-> 0, body |-> "not json"]} \cup
               [raised : {FALSE}, status_code : StatusCodes, body : Bodies]

NoPayload == [stored |-> FALSE, timestamp |-> 0, payload |-> None]
NoAnswerYet == [raised |-> FALSE, status_code |-> 0, body |-> None]
NoRefresh == [match_id |-> 0, response |-> NoAnswerYet, result |-> None, raised |-> FALSE]

RefreshIdle ==
    /\ rf_now = 0
    /\ rf_pc = [c \in Refreshers |-> "idle"]
    /\ rf_match_id = [c \in Refreshers |-> 0]
    /\ rf_football = [m \in MatchIds |-> NoPayload]
    /\ rf_match = [m \in MatchIds |-> NoPayload]
    /\ rf_ret = NoRefresh

\* FootballCache.set / MatchDataCache.set: the entry stored
Stored(data) == [stored |-> TRUE, timestamp |-> rf_now, payload |-> data]

\* line 14: resp.status_code != 200
StatusAny(status_code) == FALSE
StatusNot200(status_code) == status_code # 200

\* line 18: resp.json() raises on a body that is no JSON
JsonRaises(body) == body = "not json"

\* line 19: not data
NotData(data) == data = "{}"

\* lines 11-32 after the response: the value returned, None on every failure
RefreshResult(response) ==
    IF response.raised THEN None
    ELSE IF StatusNot200(response.status_code) THEN None
    ELSE IF JsonRaises(response.body) THEN None
    ELSE IF NotData(response.body) THEN None
    ELSE response.body

\* lines 9-13: the call starts and awaits client.get
RefreshRequest(c, match_id) ==
    /\ rf_pc[c] = "idle"
    /\ rf_pc' = [rf_pc EXCEPT ![c] = "awaiting"]
    /\ rf_match_id' = [rf_match_id EXCEPT ![c] = match_id]
    /\ UNCHANGED <<rf_now, rf_football, rf_match, rf_ret>>

\* lines 13-32: the response arrives and the call ends
RefreshReturn(c, response) ==
    LET match_id == rf_match_id[c]
        data == RefreshResult(response)
    IN /\ rf_pc[c] = "awaiting"
       /\ rf_pc' = [rf_pc EXCEPT ![c] = "idle"]
       /\ rf_match_id' = [rf_match_id EXCEPT ![c] = 0]
       /\ IF data # None
          THEN /\ rf_football' = [rf_football EXCEPT ![match_id] = Stored(data)]
               /\ rf_match' = [rf_match EXCEPT ![match_id] = Stored(data)]
          ELSE UNCHANGED <<rf_football, rf_match>>
       /\ rf_ret' = [match_id |-> match_id, response |-> response, result |-> data,
                     raised |-> FALSE]
       /\ UNCHANGED rf_now

\* time.time() advancing
RefreshTick ==
    /\ rf_now < MaxRefreshClock
    /\ rf_now' = rf_now + 1
    /\ UNCHANGED <<rf_pc, rf_match_id, rf_football, rf_match, rf_ret>>

(***************************************************************************)
(* Properties of refresh_match_data                                        *)
(***************************************************************************)
\* a call of refresh_match_data ends in this step
RefreshEnds == \E c \in Refreshers : rf_pc[c] = "awaiting" /\ rf_pc'[c] = "idle"

\* the response of the call that ended is a successful fetch
Successful(response) ==
    /\ ~response.raised
    /\ response.status_code = 200
    /\ response.body \in MatchData

\* C28: a call of refresh_match_data that fetched successfully (status 200,
\* body not empty) stores the data under match_id in football_cache and in
\* match_data_cache, changes no other entry and returns the data; a call
\* that failed (other status, empty body, exception) returns None and leaves
\* both caches as they were; no call raises.
C28_StoresBothOrNothing ==
    [][RefreshEnds =>
          LET r == rf_ret'
          IN /\ ~r.raised
             /\ IF Successful(r.response)
                THEN /\ r.result = r.response.body
                     /\ rf_football' = [rf_football EXCEPT ![r.match_id] =
                            [stored |-> TRUE, timestamp |-> rf_now, payload |-> r.result]]
                     /\ rf_match' = [rf_match EXCEPT ![r.match_id] =
                            [stored |-> TRUE, timestamp |-> rf_now, payload |-> r.result]]
                ELSE /\ r.result = None
                     /\ UNCHANGED <<rf_football, rf_match>>]_rf_vars

\* a call for match 2 stored data2 in both caches while match 1 kept data1,
\* and a failed call for match 1 has just returned None
C28_Witness ==
    /\ rf_ret.match_id = 1
    /\ rf_ret.result = None
    /\ rf_ret.response.status_code = 404
    /\ rf_football[1].payload = "data1" /\ rf_match[1].payload = "data1"
    /\ rf_football[2].payload = "data2" /\ rf_match[2].payload = "data2"
    /\ rf_football[2].timestamp = 1 /\ rf_football[1].timestamp = 0

(***************************************************************************)
(* KeyManager, LoadBalancer and the /ask route of backend_api7.py.  Each   *)
(* key holds an asyncio.Semaphore(max_concurrent) and a counter active; an *)
(* ask runs in the event loop from get_best_key to its first suspension    *)
(* (the semaphore, if no permit is free, else the provider call) without   *)
(* interleaving.  time.time() is counted in whole seconds.                 *)
(***************************************************************************)
VARIABLES
    km_now,       \* time.time()
    km_max,       \* MAX_CONCURRENT_PER_KEY
    km_value,     \* per key: the free permits of self.sema
    km_active,    \* per key: self.active
    km_cooldown,  \* per key: self.cooldown_until
    km_pc,        \* per ask: "idle", "waiting" in sema.acquire, "inside" the guarded section
    km_key,       \* per ask: the key get_best_key chose
    km_started,   \* per ask in flight: the time wait_for was entered
    km_exit       \* history: how the last ask left

km_vars == <<km_now, km_max, km_value, km_active, km_cooldown, km_pc, km_key, km_started,
             km_exit>>

\* bounds: asks of the model, permits per key, the clock
NumAsks == 2
MaxPerKey == 1
MaxAskClock == 5

\* the timeout of wait_for in /ask and the cooldown after a provider error
AskTimeout == 3
CooldownSeconds == 3

Asks == 1..NumAsks
ApiKeys == {"key1", "key2"}

AskIdle ==
    /\ km_now = 1
    /\ km_max = 1
    /\ km_value = [k \in ApiKeys |-> 1]
    /\ km_active = [k \in ApiKeys |-> 0]
    /\ km_cooldown = [k \in ApiKeys |-> 0]
    /\ km_pc = [a \in Asks |-> "idle"]
    /\ km_key = [a \in Asks |-> None]
    /\ km_started = [a \in Asks |-> 0]
    /\ km_exit = None

\* LoadBalancer.get_best_key: the keys it may return
Candidates ==
    LET ready == {k \in ApiKeys : km_now > km_cooldown[k]}
    IN  IF ready = {} THEN ApiKeys ELSE ready

BestKeys == {k \in Candidates : \A j \in Candidates : km_active[k] <= km_active[j]}

\* finally: self.active -= 1
ActiveKeptOnTimeout(active, exit) == IF exit = "timeout" THEN active ELSE active - 1
ActiveAfterExit(active, exit) == active - 1

\* the guarded section is entered: the permit is taken, self.active += 1
Enter(a, key) ==
    /\ km_value' = [km_value EXCEPT ![key] = @ - 1]
    /\ km_active' = [km_active EXCEPT ![key] = @ + 1]
    /\ km_pc' = [km_pc EXCEPT ![a] = "inside"]

\* the guarded section is left: finally, then the permit is given back
Leave(a, exit) ==
    LET key == km_key[a]
    IN /\ km_active' = [km_active EXCEPT ![key] = ActiveAfterExit(@, exit)]
       /\ km_value' = [km_value EXCEPT ![key] = @ + 1]
       /\ km_pc' = [km_pc EXCEPT ![a] = "idle"]
       /\ km_key' = [km_key EXCEPT ![a] = None]
       /\ km_started' = [km_started EXCEPT ![a] = 0]
       /\ km_exit' = exit

\* /ask: wait_for(lb.ask(messages), 3.0), up to the first suspension
AskStart(a, key) ==
    /\ km_pc[a] = "idle"
    /\ key \in BestKeys
    /\ km_key' = [km_key EXCEPT ![a] = key]
    /\ km_started' = [km_started EXCEPT ![a] = km_now]
    /\ IF km_value[key] > 0
       THEN Enter(a, key)
       ELSE /\ km_pc' = [km_pc EXCEPT ![a] = "waiting"]
            /\ UNCHANGED <<km_value, km_active>>
    /\ UNCHANGED <<km_now, km_max, km_cooldown, km_exit>>

\* sema.acquire returns for a waiting ask
AskAcquired(a) ==
    /\ km_pc[a] = "waiting"
    /\ km_value[km_key[a]] > 0
    /\ Enter(a, km_key[a])
    /\ UNCHANGED <<km_now, km_max, km_cooldown, km_key, km_started, km_exit>>

\* the provider answers: return of the try block
AskSuccess(a) ==
    /\ km_pc[a] = "inside"
    /\ Leave(a, "success")
    /\ UNCHANGED <<km_now, km_max, km_cooldown>>

\* the provider call raises: except Exception
AskError(a) ==
    /\ km_pc[a] = "inside"
    /\ km_cooldown' = [km_cooldown EXCEPT ![km_key[a]] = km_now + CooldownSeconds]
    /\ Leave(a, "error")
    /\ UNCHANGED <<km_now, km_max>>

\* wait_for cancels the ask after 3 s, in the section or waiting for it
AskTimedOut(a) ==
    /\ km_pc[a] \in {"waiting", "inside"}
    /\ km_now - km_started[a] >= AskTimeout
    /\ IF km_pc[a] = "inside"
       THEN Leave(a, "timeout")
       ELSE /\ km_pc' = [km_pc EXCEPT ![a] = "idle"]
            /\ km_key' = [km_key EXCEPT ![a] = None]
            /\ km_started' = [km_started EXCEPT ![a] = 0]
            /\ km_exit' = "timeout"
            /\ UNCHANGED <<km_value, km_active>>
    /\ UNCHANGED <<km_now, km_max, km_cooldown>>

\* a second passes; no ask stays past its timeout
AskTick ==
    /\ km_now < MaxAskClock
    /\ \A a \in Asks : km_pc[a] # "idle" => km_now - km_started[a] < AskTimeout
    /\ km_now' = km_now + 1
    /\ UNCHANGED <<km_max, km_value, km_active, km_cooldown, km_pc, km_key, km_started,
                   km_exit>>

(***************************************************************************)
(* Properties of KeyManager                                                *)
(***************************************************************************)
\* the asks inside the guarded section of a key
InSection(key) == {a \in Asks : km_pc[a] = "inside" /\ km_key[a] = key}

\* C30: for each key, active equals the number of asks inside the section
\* guarded by the semaphore, is never above max_concurrent and never below
\* 0, and so is 0 whenever no ask is in flight, however the asks left
\* (answer, provider error, cancellation by the timeout of /ask).
C30_ActiveCountsSection ==
    \A k \in ApiKeys :
        /\ km_active[k] = Cardinality(InSection(k))
        /\ km_active[k] <= km_max
        /\ km_active[k] >= 0
        /\ km_value[k] = km_max - km_active[k]

\* after an error on one key and a timeout, no ask is in flight and both
\* counters are back at 0
C30_Witness ==
    /\ km_exit = "timeout"
    /\ \A a \in Asks : km_pc[a] = "idle"
    /\ \E k \in ApiKeys : km_cooldown[k] > 0
    /\ \A k \in ApiKeys : km_active[k] = 0

\* a key's section is full while another ask waits for it
C30_WitnessFull ==
    \E k \in ApiKeys :
        /\ km_active[k] = km_max
        /\ km_max = MaxPerKey
        /\ \E a \in Asks : km_pc[a] = "waiting" /\ km_key[a] = k

(***************************************************************************)
(* Specifications                                                          *)
(***************************************************************************)
\* the variables of the subsystems below the analysis routes, and their idle values
late_vars == <<rb_vars, st_vars, me_vars, cc_vars, dn_vars, up_vars, rf_vars, km_vars>>
LateIdle == DiffIdle /\ StatsIdle /\ MatchEventsIdle /\ CommentaryIdle /\ DiffNewIdle /\ UpstreamIdle /\ RefreshIdle /\ AskIdle
DiffRest == <<st_vars, me_vars, cc_vars, dn_vars, up_vars, rf_vars, km_vars>>
DiffRestIdle == StatsIdle /\ MatchEventsIdle /\ CommentaryIdle /\ DiffNewIdle /\ UpstreamIdle /\ RefreshIdle /\ AskIdle
StatsRest == <<rb_vars, me_vars, cc_vars, dn_vars, up_vars, rf_vars, km_vars>>
StatsRestIdle == DiffIdle /\ MatchEventsIdle /\ CommentaryIdle /\ DiffNewIdle /\ UpstreamIdle /\ RefreshIdle /\ AskIdle
MatchEventsRest == <<rb_vars, st_vars, cc_vars, dn_vars, up_vars, rf_vars, km_vars>>
MatchEventsRestIdle == DiffIdle /\ StatsIdle /\ CommentaryIdle /\ DiffNewIdle /\ UpstreamIdle /\ RefreshIdle /\ AskIdle
CommentaryRest == <<rb_vars, st_vars, me_vars, dn_vars, up_vars, rf_vars, km_vars>>
CommentaryRestIdle == DiffIdle /\ StatsIdle /\ MatchEventsIdle /\ DiffNewIdle /\ UpstreamIdle /\ RefreshIdle /\ AskIdle
DiffNewRest == <<rb_vars, st_vars, me_vars, cc_vars, up_vars, rf_vars, km_vars>>
DiffNewRestIdle == DiffIdle /\ StatsIdle /\ MatchEventsIdle /\ CommentaryIdle /\ UpstreamIdle /\ RefreshIdle /\ AskIdle
UpstreamRest == <<rb_vars, st_vars, me_vars, cc_vars, dn_vars, rf_vars, km_vars>>
UpstreamRestIdle == DiffIdle /\ StatsIdle /\ MatchEventsIdle /\ CommentaryIdle /\ DiffNewIdle /\ RefreshIdle /\ AskIdle
RefreshRest == <<rb_vars, st_vars, me_vars, cc_vars, dn_vars, up_vars, km_vars>>
RefreshRestIdle == DiffIdle /\ StatsIdle /\ MatchEventsIdle /\ CommentaryIdle /\ DiffNewIdle /\ UpstreamIdle /\ AskIdle
AskRest == <<rb_vars, st_vars, me_vars, cc_vars, dn_vars, up_vars, rf_vars>>
AskRestIdle == DiffIdle /\ StatsIdle /\ MatchEventsIdle /\ CommentaryIdle /\ DiffNewIdle /\ UpstreamIdle /\ RefreshIdle

vars == <<ac_vars, ttl_vars, stream_vars, slot_vars, fan_vars, at_vars, late_vars>>

ACIdle == ACInit(MaxSize)

\* what each subsystem leaves alone
AnalyzeFrame == UNCHANGED <<ttl_vars, stream_vars, slot_vars, fan_vars, late_vars>>
CacheFrame == UNCHANGED <<ttl_vars, stream_vars, slot_vars, fan_vars, at_vars, late_vars>>
TTLFrame == UNCHANGED <<ac_vars, stream_vars, slot_vars, fan_vars, at_vars, late_vars>>
StreamFrame ==
    UNCHANGED <<ac_vars, slot_vars, fan_vars, at_vars, late_vars, inst, ttl, simple_store, cm_cache,
                api_store, ttl_ret, last_set>>
SlotsFrame == UNCHANGED <<ac_vars, ttl_vars, stream_vars, fan_vars, at_vars, late_vars>>
FanFrame == UNCHANGED <<ac_vars, ttl_vars, stream_vars, slot_vars, at_vars, late_vars>>

\* ---- the bounded cache under set, get, remove and clear
CacheInit ==
    /\ \E cap \in -1..MaxSize : ACInit(cap)
    /\ TTLIdle /\ StreamIdle /\ SlotsIdle /\ FanIdle /\ AnalyzeIdle /\ LateIdle

CacheNext ==
    \/ \E k \in Times : ACGet(k) /\ CacheFrame
    \/ \E k \in Times, v \in Results : ACSet(k, v) /\ CacheFrame
    \/ \E k \in Times : ACRemove(k) /\ CacheFrame
    \/ ACClear /\ CacheFrame

SpecCache == CacheInit /\ [][CacheNext]_vars

\* ---- the bounded cache under set and get alone
WritesInit ==
    /\ \E cap \in 1..MaxSize : ACInit(cap)
    /\ TTLIdle /\ StreamIdle /\ SlotsIdle /\ FanIdle /\ AnalyzeIdle /\ LateIdle

WritesNext ==
    \/ \E k \in Times : ACGet(k) /\ CacheFrame
    \/ \E k \in Times, v \in Results : ACSet(k, v) /\ CacheFrame

SpecCacheWrites == WritesInit /\ [][WritesNext]_vars

\* ---- the TTL caches
TTLSpecInit ==
    /\ \/ \E i \in {"TTLCache", "SimpleCache"}, t \in 0..MaxTTL : TTLInit(i, t)
       \/ TTLInit("CacheManager", 0)
       \/ TTLInit("cache_api", ApiTTL)
    /\ ACIdle /\ StreamIdle /\ SlotsIdle /\ FanIdle /\ AnalyzeIdle /\ LateIdle

TTLNext ==
    \/ Tick /\ TTLFrame
    \/ \E k \in TKeys : TTLCacheGet(k) /\ TTLFrame
    \/ \E k \in TKeys, v \in TValues : TTLCacheSet(k, v) /\ TTLFrame
    \/ \E k \in TKeys : TTLCacheDelete(k) /\ TTLFrame
    \/ TTLCacheClear /\ TTLFrame
    \/ \E k \in TKeys : SimpleGet(k) /\ TTLFrame
    \/ \E k \in TKeys, v \in TValues : SimpleSet(k, v) /\ TTLFrame
    \/ SimpleClear /\ TTLFrame
    \/ \E k \in TKeys, t \in 0..MaxTTL : CacheManagerGet(k, t) /\ TTLFrame
    \/ \E k \in TKeys, v \in TValues : CacheManagerSet(k, v) /\ TTLFrame
    \/ CacheManagerClear /\ TTLFrame
    \/ \E k \in TKeys : ApiGet(k) /\ TTLFrame
    \/ \E k \in TKeys, v \in TValues : ApiSet(k, v) /\ TTLFrame

SpecTTL == TTLSpecInit /\ [][TTLNext]_vars

\* ---- the event stream
SleepTimes == {PollInterval, PollInterval + 1}

StreamInit ==
    /\ StreamIdle
    /\ TTLInit("TTLCache", EventsTTL)
    /\ ACIdle /\ SlotsIdle /\ FanIdle /\ AnalyzeIdle /\ LateIdle

StreamNext ==
    \/ \E s \in Subs, e \in EventsAnswers, f \in FixtureAnswers \cup {Raise} :
          StreamStart(s, e, f) /\ StreamFrame
    \/ \E s \in Subs : StreamResume(s) /\ StreamFrame
    \/ \E s \in Subs, d \in SleepTimes : StreamWake(s, d) /\ StreamFrame
    \/ \E s \in Subs, e \in EventsAnswers, f \in FixtureAnswers \cup {Raise} :
          StreamPoll(s, f, e) /\ StreamFrame
    \/ \E s \in Subs : StreamClose(s) /\ StreamFrame
    \/ \E s \in Subs : StreamReconnect(s) /\ StreamFrame

SpecStream == StreamInit /\ [][StreamNext]_vars

\* ---- the event stream with the snapshot endpoint of the same fixture
\* the upstream answers used here: a raising call, no event, one event
FewAnswers == {a \in EventsAnswers : Len(a.events) <= 1}

SharedNext ==
    \/ \E s \in Subs, e \in FewAnswers, f \in FixtureAnswers \cup {Raise} :
          StreamStart(s, e, f) /\ StreamFrame
    \/ \E s \in Subs : StreamResume(s) /\ StreamFrame
    \/ \E s \in Subs, d \in SleepTimes : StreamWake(s, d) /\ StreamFrame
    \/ \E s \in Subs, e \in FewAnswers, f \in FixtureAnswers \cup {Raise} :
          StreamPoll(s, f, e) /\ StreamFrame
    \/ \E s \in Subs : StreamClose(s) /\ StreamFrame
    \/ \E s \in Subs : StreamReconnect(s) /\ StreamFrame
    \/ \E e \in FewAnswers : GetMatchEvents(e) /\ StreamFrame

SpecShared == StreamInit /\ [][SharedNext]_vars

\* ---- the execution slots
SlotsSpecInit ==
    /\ \E w \in 1..MaxWorkers : SlotsInit(w)
    /\ ACIdle /\ TTLIdle /\ StreamIdle /\ FanIdle /\ AnalyzeIdle /\ LateIdle

SlotsNext ==
    \/ \E r \in Reqs : ReqEnter(r) /\ SlotsFrame
    \/ \E r \in Reqs : ReqReadFails(r) /\ SlotsFrame
    \/ \E r \in Reqs : RawSubmit(r) /\ SlotsFrame
    \/ \E r \in Reqs : ReqCancel(r) /\ SlotsFrame
    \/ \E r \in Reqs : ReqAcquire(r) /\ SlotsFrame
    \/ \E r \in Reqs : ReqAcquireLate(r) /\ SlotsFrame
    \/ \E r \in Reqs : ReqBusy(r) /\ SlotsFrame
    \/ JobStart /\ SlotsFrame
    \/ \E j \in Reqs, status \in {200, 500} : JobFinish(j, status) /\ SlotsFrame
    \/ \E r \in Reqs : ReqTimeout(r) /\ SlotsFrame
    \/ \E r \in Reqs : ReqReset(r) /\ SlotsFrame

SpecSlots == SlotsSpecInit /\ [][SlotsNext]_vars

\* ---- the same requests with further requests filling request_semaphore
GateNext ==
    \/ \E r \in Reqs : ReqEnter(r) /\ SlotsFrame
    \/ \E r \in Reqs : ReqEnterLate(r) /\ SlotsFrame
    \/ OtherEnter /\ SlotsFrame
    \/ OtherLeave /\ SlotsFrame
    \/ \E r \in Reqs : ReqReadFails(r) /\ SlotsFrame
    \/ \E r \in Reqs : RawSubmit(r) /\ SlotsFrame
    \/ \E r \in Reqs : ReqCancel(r) /\ SlotsFrame
    \/ \E r \in Reqs : ReqAcquire(r) /\ SlotsFrame
    \/ \E r \in Reqs : ReqAcquireLate(r) /\ SlotsFrame
    \/ \E r \in Reqs : ReqBusy(r) /\ SlotsFrame
    \/ JobStart /\ SlotsFrame
    \/ \E j \in Reqs, status \in {200, 500} : JobFinish(j, status) /\ SlotsFrame
    \/ \E r \in Reqs : ReqTimeout(r) /\ SlotsFrame
    \/ \E r \in Reqs : ReqReset(r) /\ SlotsFrame

SpecGate == SlotsSpecInit /\ [][GateNext]_vars

\* ---- calls of analyze_complete, one after the other
FanInit ==
    /\ FanIdle
    /\ ACIdle /\ TTLIdle /\ StreamIdle /\ SlotsIdle /\ AnalyzeIdle /\ LateIdle

FanNext ==
    \/ FanCall /\ FanFrame
    \/ FanTick /\ FanFrame
    \/ \E d \in Detectors : DetFinish(d) /\ FanFrame
    \/ \E d \in Detectors : FanCollect(d) /\ FanFrame
    \/ FanReset /\ FanFrame

SpecFan == FanInit /\ [][FanNext]_vars

\* ---- /analyze-time beside the other routes that touch the analysis cache
AnalyzeInit ==
    /\ \E cap \in 1..MaxSize : ACInit(cap)
    /\ AnalyzeIdle
    /\ TTLIdle /\ StreamIdle /\ SlotsIdle /\ FanIdle /\ LateIdle

AnalyzeNext ==
    \/ \E t \in Times \cup {None}, r \in CompleteResults : AnalyzeTime(t, r) /\ AnalyzeFrame
    \/ \E r \in CompleteResults : AnalyzeComplete(r) /\ AnalyzeFrame
    \/ \E k \in Times : RemoveTimeFromCache(k) /\ AnalyzeFrame
    \/ ClearCache /\ AnalyzeFrame

SpecAnalyze == AnalyzeInit /\ [][AnalyzeNext]_vars

\* ---- the diff of one generator over a run of snapshots
DiffFrame ==
    UNCHANGED <<ac_vars, ttl_vars, stream_vars, slot_vars, fan_vars, at_vars, DiffRest>>

DiffSpecInit ==
    /\ \E initial \in Snapshots : DiffInit(initial)
    /\ DiffRestIdle
    /\ ACIdle /\ TTLIdle /\ StreamIdle /\ SlotsIdle /\ FanIdle /\ AnalyzeIdle

DiffNext ==
    \/ \E current_events \in Snapshots : DiffTick(current_events) /\ DiffFrame
    \/ DiffTickRaises /\ DiffFrame

SpecDiff == DiffSpecInit /\ [][DiffNext]_vars

\* ---- the bounded cache written by the event loop and read by /health
StatsFrame ==
    UNCHANGED <<ttl_vars, stream_vars, slot_vars, fan_vars, at_vars, StatsRest>>

StatsInit ==
    /\ \E cap \in 1..MaxSize : ACInit(cap)
    /\ StatsIdle /\ StatsRestIdle
    /\ TTLIdle /\ StreamIdle /\ SlotsIdle /\ FanIdle /\ AnalyzeIdle

StatsNext ==
    \/ \E k \in Times, v \in Results : SetStep(k, v) /\ StatsFrame
    \/ StatsStep /\ StatsFrame

SpecStats == StatsInit /\ [][StatsNext]_vars

\* ---- MatchEventsService over seconds and days
MatchEventsFrame ==
    UNCHANGED <<ac_vars, ttl_vars, stream_vars, slot_vars, fan_vars, at_vars, MatchEventsRest>>

MatchEventsInit ==
    /\ MatchEventsIdle /\ MatchEventsRestIdle
    /\ ACIdle /\ TTLIdle /\ StreamIdle /\ SlotsIdle /\ FanIdle /\ AnalyzeIdle

MatchEventsNext ==
    \/ \E k \in CacheKeys, a \in EventLists \cup {Raise} :
           GetRecentEvents(k, a) /\ MatchEventsFrame
    \/ MeSecond /\ MatchEventsFrame
    \/ MeDay /\ MatchEventsFrame

SpecMatchEvents == MatchEventsInit /\ [][MatchEventsNext]_vars

\* ---- generate_commentary for one match
CommentaryFrame ==
    UNCHANGED <<ac_vars, ttl_vars, slot_vars, fan_vars, at_vars, CommentaryRest>>

CommentaryInit ==
    /\ CommentaryIdle /\ CommentaryRestIdle
    /\ ACIdle /\ TTLIdle /\ StreamIdle /\ SlotsIdle /\ FanIdle /\ AnalyzeIdle

CommentaryNext ==
    \/ \E text \in Generated \cup {Raise}, e \in {<<>>, <<EvA>>} :
           GenerateCommentary(text, e) /\ CommentaryFrame
    \/ CommentTick /\ UNCHANGED stream_vars /\ CommentaryFrame

SpecCommentary == CommentaryInit /\ [][CommentaryNext]_vars

\* ---- diff_new_events for one fixture
DiffNewFrame ==
    UNCHANGED <<ac_vars, ttl_vars, stream_vars, slot_vars, fan_vars, at_vars, DiffNewRest>>

DiffNewInit ==
    /\ DiffNewIdle /\ DiffNewRestIdle
    /\ ACIdle /\ TTLIdle /\ StreamIdle /\ SlotsIdle /\ FanIdle /\ AnalyzeIdle

DiffNewNext ==
    \/ \E new_events \in UpstreamSnapshots : DiffNewEvents(new_events) /\ DiffNewFrame
    \/ DiffNewClear /\ DiffNewFrame

SpecDiffNew == DiffNewInit /\ [][DiffNewNext]_vars

\* ---- the cached upstream reads over seconds, minutes and hours
UpstreamFrame ==
    UNCHANGED <<ac_vars, ttl_vars, stream_vars, slot_vars, fan_vars, at_vars, UpstreamRest>>

UpstreamInit ==
    /\ UpstreamIdle /\ UpstreamRestIdle
    /\ ACIdle /\ TTLIdle /\ StreamIdle /\ SlotsIdle /\ FanIdle /\ AnalyzeIdle

UpstreamNext ==
    \/ \E r \in Reads, a \in Responses, ok \in BOOLEAN :
           CachedRead(r, a, ok) /\ UpstreamFrame
    \/ UpClear /\ UpstreamFrame
    \/ UpSecond /\ UpstreamFrame
    \/ UpMinute /\ UpstreamFrame
    \/ UpHour /\ UpstreamFrame

SpecUpstream == UpstreamInit /\ [][UpstreamNext]_vars

\* ---- refresh_match_data awaited by two routes
RefreshFrame ==
    UNCHANGED <<ac_vars, ttl_vars, stream_vars, slot_vars, fan_vars, at_vars, RefreshRest>>

RefreshInit ==
    /\ RefreshIdle /\ RefreshRestIdle
    /\ ACIdle /\ TTLIdle /\ StreamIdle /\ SlotsIdle /\ FanIdle /\ AnalyzeIdle

RefreshNext ==
    \/ \E c \in Refreshers, m \in MatchIds : RefreshRequest(c, m) /\ RefreshFrame
    \/ \E c \in Refreshers, r \in Answers : RefreshReturn(c, r) /\ RefreshFrame
    \/ RefreshTick /\ RefreshFrame

SpecRefresh == RefreshInit /\ [][RefreshNext]_vars

\* ---- asks over the keys of the load balancer
AskFrame ==
    UNCHANGED <<ac_vars, ttl_vars, stream_vars, slot_vars, fan_vars, at_vars, AskRest>>

AskInit ==
    /\ km_now = 1
    /\ km_max \in 1..MaxPerKey
    /\ km_value = [k \in ApiKeys |-> km_max]
    /\ km_active = [k \in ApiKeys |-> 0]
    /\ km_cooldown = [k \in ApiKeys |-> 0]
    /\ km_pc = [a \in Asks |-> "idle"]
    /\ km_key = [a \in Asks |-> None]
    /\ km_started = [a \in Asks |-> 0]
    /\ km_exit = None
    /\ AskRestIdle
    /\ ACIdle /\ TTLIdle /\ StreamIdle /\ SlotsIdle /\ FanIdle /\ AnalyzeIdle

AskNext ==
    \/ \E a \in Asks, k \in ApiKeys : AskStart(a, k) /\ AskFrame
    \/ \E a \in Asks : AskAcquired(a) /\ AskFrame
    \/ \E a \in Asks : AskSuccess(a) /\ AskFrame
    \/ \E a \in Asks : AskError(a) /\ AskFrame
    \/ \E a \in Asks : AskTimedOut(a) /\ AskFrame
    \/ AskTick /\ AskFrame

SpecAsk == AskInit /\ [][AskNext]_vars

=============================================================================
